---------------------------- MODULE Spec2Model ----------------------------
(***************************************************************************)
(* A model of json-stream-parser: the JsonTransformStream engine, its      *)
(* buffer, the JsonPath matcher, the primitive, incremental and bulk       *)
(* parsers and the skip consumers.                                         *)
(*                                                                         *)
(* Text is a sequence of characters, each character a string token; the    *)
(* input is a sequence of bytes (integers) that the buffer decodes as      *)
(* UTF-8.  JSON values are tagged tuples <<tag, payload>>.                 *)
(***************************************************************************)
EXTENDS Integers, Sequences, FiniteSets, TLC

(***************************************************************************)
(* Characters and bytes                                                    *)
(***************************************************************************)

\* Ascii[b] is the character of the byte b, 1 <= b <= 127.
Ascii ==
  <<
    "x01", "x02", "x03", "x04", "x05", "x06", "x07", "x08",
    "TAB", "LF", "x0B", "FF", "CR", "x0E", "x0F", "x10",
    "x11", "x12", "x13", "x14", "x15", "x16", "x17", "x18",
    "x19", "x1A", "x1B", "x1C", "x1D", "x1E", "x1F", " ",
    "!", "\"", "#", "$", "%", "&", "'", "(",
    ")", "*", "+", ",", "-", ".", "/", "0",
    "1", "2", "3", "4", "5", "6", "7", "8",
    "9", ":", ";", "<", "=", ">", "?", "@",
    "A", "B", "C", "D", "E", "F", "G", "H",
    "I", "J", "K", "L", "M", "N", "O", "P",
    "Q", "R", "S", "T", "U", "V", "W", "X",
    "Y", "Z", "[", "\\", "]", "^", "_", "x60",
    "a", "b", "c", "d", "e", "f", "g", "h",
    "i", "j", "k", "l", "m", "n", "o", "p",
    "q", "r", "s", "t", "u", "v", "w", "x",
    "y", "z", "{", "|", "}", "~", "x7F"
  >>

\* The character of a code point above 127.
CodePointChar(cp) ==
  CASE cp = 233   -> "U+00E9"
    [] cp = 8364  -> "U+20AC"
    [] cp = 65279 -> "U+FEFF"
    [] OTHER      -> "U+" \o ToString(cp)

REPLACEMENT == "U+FFFD"

\* The UTF-8 bytes of a character of the documents of this model.
Utf8Bytes(c) ==
  CASE c = "U+00E9" -> <<195, 169>>
    [] c = "U+20AC" -> <<226, 130, 172>>
    [] c = "U+FEFF" -> <<239, 187, 191>>
    [] OTHER -> <<CHOOSE b \in 1..127 : Ascii[b] = c>>

RECURSIVE Utf8Encode(_)
Utf8Encode(s) == IF s = <<>> THEN <<>> ELSE Utf8Bytes(Head(s)) \o Utf8Encode(Tail(s))

Digits == {"0", "1", "2", "3", "4", "5", "6", "7", "8", "9"}

DigitVal(c) ==
  CASE c = "0" -> 0 [] c = "1" -> 1 [] c = "2" -> 2 [] c = "3" -> 3 [] c = "4" -> 4
    [] c = "5" -> 5 [] c = "6" -> 6 [] c = "7" -> 7 [] c = "8" -> 8 [] c = "9" -> 9

DigitChar(d) == Ascii[48 + d]

\* The four JSON whitespace characters (RFC 8259).
JsonWs == {" ", "TAB", "LF", "CR"}

\* What the regular-expression class \s matches: a superset of JsonWs.
RegexWs == JsonWs \cup {"x0B", "FF", "U+FEFF", "U+160"}

\* What the regular-expression "." does not match.
LineTerminators == {"LF", "CR", "U+8232", "U+8233"}

\* The lookahead class [\s,\}\]] of the number and literal patterns.
Terminators == RegexWs \cup {",", "}", "]"}

(***************************************************************************)
(* Sequence helpers                                                        *)
(***************************************************************************)

\* str.substring(n) on a sequence: what is left after the first n elements.
Drop(s, n) == IF n >= Len(s) THEN <<>> ELSE SubSeq(s, n + 1, Len(s))

\* str.substring(0, n)
Take(s, n) == IF n >= Len(s) THEN s ELSE SubSeq(s, 1, n)

\* str.startsWith(p)
StartsWith(s, p) == Len(p) <= Len(s) /\ SubSeq(s, 1, Len(p)) = p

\* str.endsWith(p)
EndsWith(s, p) == Len(p) <= Len(s) /\ SubSeq(s, Len(s) - Len(p) + 1, Len(s)) = p

\* str.includes(c) for a single character c
Includes(s, c) == \E i \in 1..Len(s) : s[i] = c

\* s is t with elements left out
RECURSIVE IsSubseqFrom(_, _, _, _)
IsSubseqFrom(s, i, t, j) ==
  IF i > Len(s) THEN TRUE
  ELSE IF j > Len(t) THEN FALSE
  ELSE IF s[i] = t[j] THEN IsSubseqFrom(s, i + 1, t, j + 1)
  ELSE IsSubseqFrom(s, i, t, j + 1)

IsSubseq(s, t) == IsSubseqFrom(s, 1, t, 1)

Count(s, x) == Cardinality({i \in 1..Len(s) : s[i] = x})

\* String(n) for a non-negative integer, as characters
RECURSIVE IntChars(_)
IntChars(n) == IF n < 10 THEN <<DigitChar(n)>> ELSE IntChars(n \div 10) \o <<DigitChar(n % 10)>>

(***************************************************************************)
(* JSON values and the host decoder JSON.parse                             *)
(*                                                                         *)
(*   <<"str", chars>>   <<"num", <<m, e>>>> (the number m * 10^e)           *)
(*   <<"lit", "true" | "false" | "null">>   <<"arr", values>>               *)
(*   <<"obj", <<key, value>> pairs in insertion order>>   <<"undef", <<>>>> *)
(***************************************************************************)

Undefined == <<"undef", <<>>>>

\* obj[key] = value on an insertion-ordered mapping: a key already present
\* keeps its place and takes the new value.
RECURSIVE ObjIndex(_, _, _)
ObjIndex(pairs, key, i) ==
  IF i > Len(pairs) THEN 0
  ELSE IF pairs[i][1] = key THEN i
  ELSE ObjIndex(pairs, key, i + 1)

ObjSet(pairs, key, val) ==
  LET i == ObjIndex(pairs, key, 1)
  IN IF i = 0 THEN Append(pairs, <<key, val>>)
     ELSE [pairs EXCEPT ![i] = <<key, val>>]

\* The end of the longest run of digits of s that starts at i (i - 1 if none).
RECURSIVE DigitsEnd(_, _)
DigitsEnd(s, i) ==
  IF i <= Len(s) /\ s[i] \in Digits THEN DigitsEnd(s, i + 1) ELSE i - 1

\* The parts of the number lexeme: the end of (?:0|[1-9]\d*) that starts at
\* s[a] (0 when none does), of (?:\.\d+)? after intEnd, of (?:[eE][+-]?\d+)?
\* after fracEnd.
IntegerEnd(s, a) ==
  IF a > Len(s) \/ s[a] \notin Digits THEN 0
  ELSE IF s[a] = "0" THEN a
  ELSE DigitsEnd(s, a)

FractionEnd(s, intEnd) ==
  IF intEnd # 0 /\ intEnd + 2 <= Len(s) /\ s[intEnd + 1] = "."
     /\ s[intEnd + 2] \in Digits
  THEN DigitsEnd(s, intEnd + 2) ELSE intEnd

ExponentDigits(s, fracEnd) ==
  IF fracEnd + 2 <= Len(s) /\ s[fracEnd + 2] \in {"+", "-"}
  THEN fracEnd + 3 ELSE fracEnd + 2

ExponentEnd(s, fracEnd) ==
  IF fracEnd # 0 /\ fracEnd + 1 <= Len(s) /\ s[fracEnd + 1] \in {"e", "E"}
     /\ ExponentDigits(s, fracEnd) <= Len(s)
     /\ s[ExponentDigits(s, fracEnd)] \in Digits
  THEN DigitsEnd(s, ExponentDigits(s, fracEnd)) ELSE fracEnd

\* The index of the last character of the number lexeme
\*   -?(?:0|[1-9]\d*)(?:\.\d+)?(?:[eE][+-]?\d+)?
\* that starts at s[i], taken greedily; 0 when no lexeme starts there.
NumberLexEnd(s, i) ==
  ExponentEnd(s, FractionEnd(s, IntegerEnd(s, IF i <= Len(s) /\ s[i] = "-" THEN i + 1 ELSE i)))

RECURSIVE DigitsValue(_, _, _, _)
DigitsValue(s, i, j, acc) ==
  IF i > j THEN acc
  ELSE IF s[i] \in Digits THEN DigitsValue(s, i + 1, j, acc * 10 + DigitVal(s[i]))
  ELSE DigitsValue(s, i + 1, j, acc)

RECURSIVE Normalize(_, _)
Normalize(m, e) ==
  IF m = 0 THEN <<0, 0>>
  ELSE IF m % 10 = 0 THEN Normalize(m \div 10, e + 1)
  ELSE <<m, e>>

\* The number a lexeme denotes, as <<m, e>> with m * 10^e its value and m
\* not a multiple of 10.
ToNumber(lex) ==
  LET n == Len(lex)
      neg == lex[1] = "-"
      ePos == IF \E k \in 1..n : lex[k] \in {"e", "E"}
              THEN CHOOSE k \in 1..n : lex[k] \in {"e", "E"} ELSE n + 1
      dot == IF \E k \in 1..n : lex[k] = "."
             THEN CHOOSE k \in 1..n : lex[k] = "." ELSE ePos
      mant == DigitsValue(lex, 1, ePos - 1, 0)
      fracLen == IF dot = ePos THEN 0 ELSE ePos - 1 - dot
      expNeg == ePos + 1 <= n /\ lex[ePos + 1] = "-"
      expAbs == IF ePos > n THEN 0 ELSE DigitsValue(lex, ePos + 1, n, 0)
      ex == (IF expNeg THEN 0 - expAbs ELSE expAbs) - fracLen
  IN Normalize(IF neg THEN 0 - mant ELSE mant, ex)

\* The first index >= i of s that holds no JSON whitespace (Len(s) + 1 if none).
RECURSIVE SkipJsonWs(_, _)
SkipJsonWs(s, i) ==
  IF i <= Len(s) /\ s[i] \in JsonWs THEN SkipJsonWs(s, i + 1) ELSE i

\* What a backslash escape of a JSON string stands for ("" when invalid).
\* \uXXXX escapes are outside this model: no document of it holds one.
Unescape(c) ==
  CASE c = "\"" -> "\""
    [] c = "\\" -> "\\"
    [] c = "/"  -> "/"
    [] c = "n"  -> "LF"
    [] c = "t"  -> "TAB"
    [] c = "r"  -> "CR"
    [] c = "f"  -> "FF"
    [] c = "b"  -> "x08"
    [] OTHER    -> ""

\* Characters JSON.parse refuses unescaped inside a string (below U+0020).
ControlChars == {Ascii[b] : b \in 1..31}

ParseFail == [ok |-> FALSE, val |-> Undefined, nxt |-> 0]

\* Decodes the JSON string whose opening quote is s[i - 1], from s[i] on.
RECURSIVE PStringFrom(_, _, _)
PStringFrom(s, i, acc) ==
  IF i > Len(s) THEN ParseFail
  ELSE IF s[i] = "\"" THEN [ok |-> TRUE, val |-> <<"str", acc>>, nxt |-> i + 1]
  ELSE IF s[i] = "\\"
       THEN IF i + 1 > Len(s) \/ Unescape(s[i + 1]) = "" THEN ParseFail
            ELSE PStringFrom(s, i + 2, Append(acc, Unescape(s[i + 1])))
  ELSE IF s[i] \in ControlChars THEN ParseFail
  ELSE PStringFrom(s, i + 1, Append(acc, s[i]))

IsWord(s, i, w) == i + Len(w) - 1 <= Len(s) /\ SubSeq(s, i, i + Len(w) - 1) = w

\* The recursive-descent decoder: the value that starts at or after s[i].
RECURSIVE PValue(_, _)
RECURSIVE PArrayRest(_, _, _)
RECURSIVE PObjectRest(_, _, _)

Parsed(val, nxt) == [ok |-> TRUE, val |-> val, nxt |-> nxt]

\* The number whose lexeme is s[j..e]; no value when e = 0.
NumberAt(s, j, e) ==
  IF e = 0 THEN ParseFail
  ELSE Parsed(<<"num", ToNumber(SubSeq(s, j, e))>>, e + 1)

\* The value whose first character is s[j].
ValueAt(s, j) ==
  IF j > Len(s) THEN ParseFail
  ELSE IF s[j] = "\"" THEN PStringFrom(s, j + 1, <<>>)
  ELSE IF s[j] = "[" THEN
    LET k == SkipJsonWs(s, j + 1)
    IN IF k <= Len(s) /\ s[k] = "]" THEN Parsed(<<"arr", <<>>>>, k + 1)
       ELSE PArrayRest(s, j + 1, <<>>)
  ELSE IF s[j] = "{" THEN
    LET k == SkipJsonWs(s, j + 1)
    IN IF k <= Len(s) /\ s[k] = "}" THEN Parsed(<<"obj", <<>>>>, k + 1)
       ELSE PObjectRest(s, j + 1, <<>>)
  ELSE IF IsWord(s, j, <<"t", "r", "u", "e">>) THEN Parsed(<<"lit", "true">>, j + 4)
  ELSE IF IsWord(s, j, <<"f", "a", "l", "s", "e">>) THEN Parsed(<<"lit", "false">>, j + 5)
  ELSE IF IsWord(s, j, <<"n", "u", "l", "l">>) THEN Parsed(<<"lit", "null">>, j + 4)
  ELSE NumberAt(s, j, NumberLexEnd(s, j))

PValue(s, i) == ValueAt(s, SkipJsonWs(s, i))

\* What follows the element r of an array: its end or a comma and the rest.
ArrayAfterValue(s, acc, r) ==
  IF ~r.ok THEN ParseFail
  ELSE LET k == SkipJsonWs(s, r.nxt)
       IN IF k > Len(s) THEN ParseFail
          ELSE IF s[k] = "]" THEN Parsed(<<"arr", Append(acc, r.val)>>, k + 1)
          ELSE IF s[k] = "," THEN PArrayRest(s, k + 1, Append(acc, r.val))
          ELSE ParseFail

\* The elements of an array from s[i] on, one element at least expected.
PArrayRest(s, i, acc) == ArrayAfterValue(s, acc, PValue(s, i))

\* What follows the value r of a member: the end of the object or a comma
\* and the rest.
ObjectAfterValue(s, obj, r) ==
  IF ~r.ok THEN ParseFail
  ELSE LET k == SkipJsonWs(s, r.nxt)
       IN IF k > Len(s) THEN ParseFail
          ELSE IF s[k] = "}" THEN Parsed(<<"obj", obj>>, k + 1)
          ELSE IF s[k] = "," THEN PObjectRest(s, k + 1, obj)
          ELSE ParseFail

\* What follows the key of a member: a colon and the value.
ObjectAfterKey(s, acc, key) ==
  IF ~key.ok THEN ParseFail
  ELSE LET c == SkipJsonWs(s, key.nxt)
           r == PValue(s, c + 1)
       IN IF c > Len(s) \/ s[c] # ":" THEN ParseFail
          ELSE ObjectAfterValue(s, IF r.ok THEN ObjSet(acc, key.val[2], r.val) ELSE acc, r)

\* The members of an object from s[i] on, one member at least expected.
PObjectRest(s, i, acc) ==
  LET j == SkipJsonWs(s, i)
  IN IF j > Len(s) \/ s[j] # "\"" THEN ParseFail
     ELSE ObjectAfterKey(s, acc, PStringFrom(s, j + 1, <<>>))

\* The value r is the result when only whitespace follows it.
WholeText(text, r) ==
  IF r.ok /\ SkipJsonWs(text, r.nxt) > Len(text)
  THEN [ok |-> TRUE, val |-> r.val]
  ELSE [ok |-> FALSE, val |-> Undefined]

\* JSON.parse(text): ok is FALSE where JSON.parse throws a SyntaxError.
JsonParse(text) == WholeText(text, PValue(text, 1))

(***************************************************************************)
(* JsonPath: one parsed pattern                                            *)
(***************************************************************************)

\* A _determineType that lets the recursive wildcard through.
RecursiveWildcardAllowed(pattern) == FALSE

\* pattern.includes('**')
HasRecursiveWildcard(pattern) ==
  \E i \in 1..(Len(pattern) - 1) : pattern[i] = "*" /\ pattern[i + 1] = "*"

\* The JsonPath constructor accepts the pattern (otherwise it throws).
PatternAccepted(pattern) == pattern # <<>> /\ ~HasRecursiveWildcard(pattern)

DetermineType(pattern) ==
  IF EndsWith(pattern, <<"[", "*", "]">>) THEN "array_wildcard"
  ELSE IF EndsWith(pattern, <<".", "*">>) THEN "object_wildcard"
  ELSE "exact"

ExtractBasePath(pattern, type) ==
  IF type = "array_wildcard" THEN Take(pattern, Len(pattern) - 3)
  ELSE IF type = "object_wildcard" THEN Take(pattern, Len(pattern) - 2)
  ELSE pattern

\* The characters of the class [.*+?^${}()|[\]\\]
RegexSpecials ==
  {".", "*", "+", "?", "^", "$", "{", "}", "(", ")", "|", "[", "]", "\\"}

\* An escape that leaves the dot as it is.
RECURSIVE EscapeAllButDot(_)
EscapeAllButDot(str) ==
  IF str = <<>> THEN <<>>
  ELSE (IF Head(str) \in RegexSpecials \ {"."} THEN <<"\\", Head(str)>>
        ELSE <<Head(str)>>) \o EscapeAllButDot(Tail(str))

\* str.replace(/[.*+?^${}()|[\]\\]/g, '\\$&'): a backslash in front of
\* every character of the class.
RECURSIVE _escapeRegex(_)
_escapeRegex(str) ==
  IF str = <<>> THEN <<>>
  ELSE (IF Head(str) \in RegexSpecials THEN <<"\\", Head(str)>>
        ELSE <<Head(str)>>) \o _escapeRegex(Tail(str))

\* The atom of a regular expression that starts at src[i]: \d is a digit,
\* a backslash and any other character that character, ^ and $ the ends
\* of the input, a dot any character but a line terminator, and any other
\* character itself.
RegexAtom(src, i) ==
  IF src[i] = "\\" /\ i < Len(src)
  THEN IF src[i + 1] = "d" THEN [kind |-> "digit", ch |-> "", width |-> 2]
       ELSE [kind |-> "char", ch |-> src[i + 1], width |-> 2]
  ELSE IF src[i] = "^" THEN [kind |-> "start", ch |-> "", width |-> 1]
  ELSE IF src[i] = "$" THEN [kind |-> "end", ch |-> "", width |-> 1]
  ELSE IF src[i] = "." THEN [kind |-> "any", ch |-> "", width |-> 1]
  ELSE [kind |-> "char", ch |-> src[i], width |-> 1]

\* new RegExp(source) for the expressions the patterns give rise to: atoms,
\* each of them once or, with + after it, once or more.
RECURSIVE RegExpFrom(_, _)
RegExpFrom(src, i) ==
  IF i > Len(src) THEN <<>>
  ELSE LET atom == RegexAtom(src, i)
           plus == i + atom.width <= Len(src) /\ src[i + atom.width] = "+"
       IN <<[kind |-> atom.kind, ch |-> atom.ch, plus |-> plus]>>
            \o RegExpFrom(src, i + atom.width + (IF plus THEN 1 ELSE 0))

RegExp(src) == RegExpFrom(src, 1)

\* The character c is one the atom stands for.
RegexAccepts(atom, c) ==
  CASE atom.kind = "digit" -> c \in Digits
    [] atom.kind = "any" -> c \notin LineTerminators
    [] atom.kind = "char" -> c = atom.ch
    [] OTHER -> FALSE

\* The atoms of re from the t-th on match str from its i-th character on;
\* again says that the t-th atom has matched once already.
RECURSIVE RegexMatchAt(_, _, _, _, _)
RegexMatchAt(re, t, again, str, i) ==
  IF t > Len(re) THEN TRUE
  ELSE IF re[t].kind = "start" THEN i = 1 /\ RegexMatchAt(re, t + 1, FALSE, str, i)
  ELSE IF re[t].kind = "end"
  THEN i = Len(str) + 1 /\ RegexMatchAt(re, t + 1, FALSE, str, i)
  ELSE \/ again /\ RegexMatchAt(re, t + 1, FALSE, str, i)
       \/ /\ i <= Len(str)
          /\ RegexAccepts(re[t], str[i])
          /\ IF re[t].plus THEN RegexMatchAt(re, t, TRUE, str, i + 1)
             ELSE RegexMatchAt(re, t + 1, FALSE, str, i + 1)

\* re.test(str) for an expression without flags
RegexTest(re, str) == \E i \in 1..(Len(str) + 1) : RegexMatchAt(re, 1, FALSE, str, i)

\* null for a pattern without [*]; /^\$\[\d+\]$/ for $[*]; otherwise
\* new RegExp(`^${this._escapeRegex(prefix)}\\[\\d+\\]$`)
_compileArrayWildcardRegex(pattern, type) ==
  IF type # "array_wildcard" THEN <<>>
  ELSE IF Take(pattern, Len(pattern) - 3) = <<"$">>
  THEN RegExp(<<"^", "\\", "$", "\\", "[", "\\", "d", "+", "\\", "]", "$">>)
  ELSE RegExp(<<"^">> \o _escapeRegex(Take(pattern, Len(pattern) - 3))
                \o <<"\\", "[", "\\", "d", "+", "\\", "]", "$">>)

JsonPathParse(pattern) ==
  LET type == DetermineType(pattern)
  IN [pattern |-> pattern, type |-> type, basePath |-> ExtractBasePath(pattern, type),
      arrayWildcardRegex |-> _compileArrayWildcardRegex(pattern, type)]

\* this.arrayWildcardRegex.test(path)
ArrayWildcardTest(jp, path) == RegexTest(jp.arrayWildcardRegex, path)

\* A wildcard for every path beneath the base path, however deep.
MatchObjectWildcardDeep(jp, path) ==
  StartsWith(path, Append(jp.basePath, ".")) /\ Len(path) > Len(jp.basePath) + 1

MatchObjectWildcard(jp, path) ==
  LET prefix == Append(jp.basePath, ".")
      remaining == Drop(path, Len(prefix))
  IN IF ~StartsWith(path, prefix) THEN FALSE
     ELSE IF remaining = <<>> THEN FALSE
     ELSE ~Includes(remaining, ".") /\ ~Includes(remaining, "[")

Match(jp, path) ==
  IF path = <<>> THEN FALSE
  ELSE CASE jp.type = "exact" -> jp.pattern = path
         [] jp.type = "array_wildcard" -> ArrayWildcardTest(jp, path)
         [] jp.type = "object_wildcard" -> MatchObjectWildcard(jp, path)
         [] OTHER -> FALSE

\* A pattern counted as lying beneath a path only when its base path is
\* that path.
BasePathIsPath(jp, path) == jp.basePath = path

\* A pattern counted as lying beneath every path its base path starts with.
PrefixWithoutSeparator(jp, path) == StartsWith(jp.basePath, path)

IsPatternDescendantOf(jp, path) ==
  IF StartsWith(jp.basePath, path)
  THEN LET remaining == Drop(jp.basePath, Len(path))
       IN remaining = <<>> \/ remaining[1] = "." \/ remaining[1] = "["
  ELSE FALSE

IsParentOf(jp, path) ==
  IF Match(jp, path) THEN TRUE ELSE IsPatternDescendantOf(jp, path)

\* A pattern that is never asked for what lies beneath a path.
NoMatchingDescendants(jp, path) == FALSE

HasMatchingDescendants(jp, path) ==
  IF Match(jp, path) THEN FALSE ELSE IsPatternDescendantOf(jp, path)

\* parsedJsonPaths.some(jsonPath => jsonPath.match(path))
AnyMatch(parsedJsonPaths, path) ==
  \E i \in 1..Len(parsedJsonPaths) : Match(parsedJsonPaths[i], path)

\* A choice that asks first whether the path itself matches.
BulkBeforeIncremental(parsedJsonPaths, currentPath) ==
  IF AnyMatch(parsedJsonPaths, currentPath) THEN "bulk"
  ELSE IF \E i \in 1..Len(parsedJsonPaths) :
            HasMatchingDescendants(parsedJsonPaths[i], currentPath)
  THEN "incremental"
  ELSE "skip"

DetermineParseStrategy(parsedJsonPaths, currentPath) ==
  IF \E i \in 1..Len(parsedJsonPaths) :
       HasMatchingDescendants(parsedJsonPaths[i], currentPath)
  THEN "incremental"
  ELSE IF AnyMatch(parsedJsonPaths, currentPath) THEN "bulk"
  ELSE "skip"

(***************************************************************************)
(* JsonTransformStreamBuffer                                               *)
(*                                                                         *)
(* A buffer is [buffer, consumedTotal, pending, bomSeen]: the decoded and  *)
(* not yet consumed text, the count of consumed characters, and the state  *)
(* of the streaming TextDecoder('utf-8', {fatal: false}): the bytes of a   *)
(* sequence it has not seen the end of, and whether it is past the place   *)
(* where a byte order mark is dropped.                                     *)
(***************************************************************************)

NewBuffer == [buffer |-> <<>>, consumedTotal |-> 0, pending |-> <<>>, bomSeen |-> FALSE]

\* How many bytes the sequence that starts with byte b has (0: no sequence
\* starts with b).
SequenceLength(b) ==
  IF b <= 127 THEN 1
  ELSE IF b >= 194 /\ b <= 223 THEN 2
  ELSE IF b >= 224 /\ b <= 239 THEN 3
  ELSE IF b >= 240 /\ b <= 244 THEN 4
  ELSE 0

\* Whether b may follow the bytes seen so far of a sequence.
ContinuationOk(seen, b) ==
  LET first == seen[1]
      lower == IF Len(seen) = 1 /\ first = 224 THEN 160
               ELSE IF Len(seen) = 1 /\ first = 240 THEN 144 ELSE 128
      upper == IF Len(seen) = 1 /\ first = 237 THEN 159
               ELSE IF Len(seen) = 1 /\ first = 244 THEN 143 ELSE 191
  IN b >= lower /\ b <= upper

\* The code point of a complete sequence of 2, 3 or 4 bytes.
CodePoint(bytes) ==
  IF Len(bytes) = 2 THEN (bytes[1] - 192) * 64 + (bytes[2] - 128)
  ELSE IF Len(bytes) = 3
    THEN (bytes[1] - 224) * 4096 + (bytes[2] - 128) * 64 + (bytes[3] - 128)
  ELSE (bytes[1] - 240) * 262144 + (bytes[2] - 128) * 4096
         + (bytes[3] - 128) * 64 + (bytes[4] - 128)

\* The characters of a code point in the buffer's string (UTF-16 code units).
CodeUnits(cp) ==
  IF cp < 65536 THEN <<CodePointChar(cp)>>
  ELSE <<CodePointChar(55296 + ((cp - 65536) \div 1024)),
         CodePointChar(56320 + ((cp - 65536) % 1024))>>

\* The decoder takes the characters chars: a byte order mark at the very
\* start of the stream is dropped.  d is [pending, bomSeen, out].
Decoded(d, chars) ==
  [pending |-> <<>>, bomSeen |-> TRUE,
   out |-> IF ~d.bomSeen /\ chars = <<"U+FEFF">> THEN d.out ELSE d.out \o chars]

\* The decoder, with no sequence under way, is given the byte b.
DecodeFirst(d, b) ==
  IF b = 0 THEN Decoded(d, <<"x00">>)
  ELSE IF SequenceLength(b) = 1 THEN Decoded(d, <<Ascii[b]>>)
  ELSE IF SequenceLength(b) = 0 THEN Decoded(d, <<REPLACEMENT>>)
  ELSE [d EXCEPT !.pending = <<b>>]

\* The decoder has seen the bytes of an unfinished sequence and is given b.
DecodeNext(d, b, seen) ==
  IF Len(seen) = SequenceLength(seen[1])
  THEN Decoded(d, CodeUnits(CodePoint(seen)))
  ELSE [d EXCEPT !.pending = seen]

\* The decoder is given the byte b.  A byte that breaks a sequence off
\* gives U+FFFD and is decoded afresh.
DecodeByte(d, b) ==
  IF d.pending = <<>> THEN DecodeFirst(d, b)
  ELSE IF ~ContinuationOk(d.pending, b) THEN DecodeFirst(Decoded(d, <<REPLACEMENT>>), b)
  ELSE DecodeNext(d, b, Append(d.pending, b))

\* The decoder is given the bytes i..j of the chunk, one after the other:
\* the first half of them, and in the state v that they leave the second.
RECURSIVE DecodeRange(_, _, _, _)
DecodeRange(d, chunk, i, j) ==
  IF i > j THEN d
  ELSE IF i = j THEN DecodeByte(d, chunk[i])
  ELSE CHOOSE r \in {DecodeRange(v, chunk, (i + j) \div 2 + 1, j) :
                       v \in {DecodeRange(d, chunk, i, (i + j) \div 2)}} : TRUE

\* decoder.decode(chunk, {stream: true}) from byte i of the chunk on; d is
\* [pending, bomSeen, out].
DecodeFrom(d, chunk, i) == DecodeRange(d, chunk, i, Len(chunk))

\* A buffer that holds the text of the last chunk only.
ChunkReplacesBuffer(buf, chunk) ==
  IF Len(chunk) = 0 THEN buf
  ELSE LET d == DecodeFrom([pending |-> buf.pending, bomSeen |-> buf.bomSeen, out |-> <<>>],
                           chunk, 1)
       IN [buf EXCEPT !.buffer = d.out,
                      !.pending = d.pending,
                      !.bomSeen = d.bomSeen]

addChunk(buf, chunk) ==
  IF Len(chunk) = 0 THEN buf
  ELSE LET d == DecodeFrom([pending |-> buf.pending, bomSeen |-> buf.bomSeen, out |-> <<>>],
                           chunk, 1)
       IN [buf EXCEPT !.buffer = buf.buffer \o d.out,
                      !.pending = d.pending,
                      !.bomSeen = d.bomSeen]

\* null is modelled by the empty string.
peekFirstChar(buf) == IF Len(buf.buffer) > 0 THEN buf.buffer[1] ELSE ""

consumeChars(buf, length) ==
  [buf EXCEPT !.buffer = Drop(buf.buffer, length),
              !.consumedTotal = buf.consumedTotal + length]

\* The length of the match of /^\s+/ (0: no match).
RECURSIVE RegexWsEnd(_, _)
RegexWsEnd(s, i) == IF i <= Len(s) /\ s[i] \in RegexWs THEN RegexWsEnd(s, i + 1) ELSE i - 1

consumeWhitespace(buf) ==
  LET length == RegexWsEnd(buf.buffer, 1)
  IN IF length > 0
     THEN [buf EXCEPT !.buffer = Drop(buf.buffer, length),
                      !.consumedTotal = buf.consumedTotal + length]
     ELSE buf

\* consumeUntilMatch for an expression anchored at the start of the buffer
\* (all the callers' are): matchLength is the length of match[0], 0 when the
\* expression does not match, and nothing is consumed then.
consumeUntilMatch(buf, matchLength) ==
  IF matchLength = 0 THEN buf
  ELSE [buf EXCEPT !.buffer = Drop(buf.buffer, matchLength),
                   !.consumedTotal = buf.consumedTotal + matchLength]

getBuffer(buf) == buf.buffer

(***************************************************************************)
(* The anchored patterns of the primitive parsers and of the key parser:   *)
(* each operator gives the length of the match at the start of s, 0 when   *)
(* the pattern does not match.                                             *)
(***************************************************************************)

\* The index of the closing quote of ("(?:[^"\\]|\\.)*") when s[i] is the
\* next character after the opening quote to look at; 0 when there is none.
RECURSIVE StringBodyEnd(_, _)
StringBodyEnd(s, i) ==
  IF i > Len(s) THEN 0
  ELSE IF s[i] = "\"" THEN i
  ELSE IF s[i] = "\\"
       THEN IF i + 1 <= Len(s) /\ s[i + 1] \notin LineTerminators
            THEN StringBodyEnd(s, i + 2) ELSE 0
  ELSE StringBodyEnd(s, i + 1)

\* STRING_PATTERN = /^("(?:[^"\\]|\\.)*")/
STRING_PATTERN(s) ==
  IF Len(s) >= 1 /\ s[1] = "\"" THEN StringBodyEnd(s, 2) ELSE 0

\* A number pattern without the lookahead: the longest lexeme at the start
\* of s.
NumberWithoutLookahead(s) == NumberLexEnd(s, 1)

\* NUMBER_PATTERN = /^(-?(?:0|[1-9]\d*)(?:\.\d+)?(?:[eE][+-]?\d+)?)(?=[\s,\}\]])/
\* A shorter lexeme than the greedy one is followed by a character of the
\* lexeme, never by a terminator, so backtracking finds no other match.
NUMBER_PATTERN(s) ==
  LET e == NumberLexEnd(s, 1)
  IN IF e # 0 /\ e + 1 <= Len(s) /\ s[e + 1] \in Terminators THEN e ELSE 0

LiteralWord(startChar) ==
  CASE startChar = "t" -> <<"t", "r", "u", "e">>
    [] startChar = "f" -> <<"f", "a", "l", "s", "e">>
    [] startChar = "n" -> <<"n", "u", "l", "l">>

\* LITERAL_PATTERNS[startChar], e.g. /^(true)(?=[\s,\}\]])/
LITERAL_PATTERNS(startChar, s) ==
  LET w == LiteralWord(startChar)
  IN IF IsWord(s, 1, w) /\ Len(w) + 1 <= Len(s) /\ s[Len(w) + 1] \in Terminators
     THEN Len(w) ELSE 0

\* A key pattern that asks for the string only, not for the colon.
KeyWithoutColon(s) == STRING_PATTERN(s)

\* KEY_PATTERN = /^("(?:[^"\\]|\\.)*")\s*:/ ; the key is the first
\* STRING_PATTERN(s) characters of the match.
KEY_PATTERN(s) ==
  LET q == STRING_PATTERN(s)
      w == IF q = 0 THEN 0 ELSE RegexWsEnd(s, q + 1)
  IN IF q # 0 /\ w + 1 <= Len(s) /\ s[w + 1] = ":" THEN w + 1 ELSE 0

(***************************************************************************)
(* The bracket scan of the bulk parsers and the skip consumers             *)
(*                                                                         *)
(* Positions are the code's: 0-based offsets into the buffer's text, so    *)
(* the character at position p is str[p + 1].                              *)
(***************************************************************************)

\* str.indexOf('"', pos): -1 when there is none
RECURSIVE IndexOfQuote(_, _)
IndexOfQuote(str, pos) ==
  IF pos >= Len(str) THEN -1
  ELSE IF str[pos + 1] = "\"" THEN pos
  ELSE IndexOfQuote(str, pos + 1)

\* outsideStringPattern.exec(str) when lastIndex is pos, the pattern being
\* /[{"}]/g or /[\[\]"]/g: the position of the first of the three
\* characters at or after pos, -1 when there is none.
RECURSIVE OutsideStringExec(_, _, _, _)
OutsideStringExec(str, pos, openChar, closeChar) ==
  IF pos >= Len(str) THEN -1
  ELSE IF str[pos + 1] \in {"\"", openChar, closeChar} THEN pos
  ELSE OutsideStringExec(str, pos + 1, openChar, closeChar)

\* The loop "while (checkPos >= pos && str[checkPos] === '\\')": the count
\* of backslashes found going down from checkPos, not below pos.
RECURSIVE BackslashCount(_, _, _)
BackslashCount(str, checkPos, pos) ==
  IF checkPos >= pos /\ str[checkPos + 1] = "\\"
  THEN 1 + BackslashCount(str, checkPos - 1, pos)
  ELSE 0

\* A scan that leaves lastIndex as it finds it.
LastIndexKept(lastIndex, pos) == lastIndex

\* this.outsideStringPattern.lastIndex = pos
SetLastIndex(lastIndex, pos) == pos

\* The loop of _findMatchingBracketIncremental is followed in a record
\* [pos, depth, inString, lastIndex, ended, length]: ended is "" while the
\* loop runs, "break" after a break and "return" after the return of the
\* closing bracket's position, which is length.

\* The loop in a string, after indexOf: without a quote the loop is left
\* with pos at the end; a quote after an odd count of backslashes does not
\* end the string.
AfterIndexOf(s, str, quotePos) ==
  IF quotePos = -1 THEN [s EXCEPT !.pos = Len(str), !.ended = "break"]
  ELSE IF BackslashCount(str, quotePos - 1, s.pos) % 2 = 1
  THEN [s EXCEPT !.pos = quotePos + 1]
  ELSE [s EXCEPT !.inString = FALSE, !.pos = quotePos + 1]

\* The loop outside a string, after exec, which leaves in lastIndex the
\* position after its match, or 0 without one.
AfterExec(s, str, at, openChar, closeChar) ==
  IF at = -1 THEN [s EXCEPT !.pos = Len(str), !.ended = "break", !.lastIndex = 0]
  ELSE IF str[at + 1] = "\""
  THEN [s EXCEPT !.inString = TRUE, !.pos = at + 1, !.lastIndex = at + 1]
  ELSE IF str[at + 1] = openChar
  THEN [s EXCEPT !.depth = @ + 1, !.pos = at + 1, !.lastIndex = at + 1]
  ELSE IF s.depth - 1 = 0
  THEN [s EXCEPT !.depth = 0, !.length = at, !.ended = "return", !.lastIndex = at + 1]
  ELSE [s EXCEPT !.depth = @ - 1, !.pos = at + 1, !.lastIndex = at + 1]

\* The body of the loop, once
ScanIteration(s, str, openChar, closeChar) ==
  IF s.inString THEN AfterIndexOf(s, str, IndexOfQuote(str, s.pos))
  ELSE AfterExec(s, str,
                 OutsideStringExec(str, SetLastIndex(s.lastIndex, s.pos), openChar, closeChar),
                 openChar, closeChar)

\* while (pos < str.length && this.depth > 0), for as many as n iterations:
\* the first half of them, and from the state v they leave the others.
RECURSIVE ScanLoop(_, _, _, _, _)
ScanLoop(s, str, openChar, closeChar, n) ==
  IF s.ended # "" \/ ~(s.pos < Len(str) /\ s.depth > 0) THEN s
  ELSE IF n <= 1 THEN ScanIteration(s, str, openChar, closeChar)
  ELSE CHOOSE r \in {ScanLoop(v, str, openChar, closeChar, n - (n \div 2)) :
                       v \in {ScanLoop(s, str, openChar, closeChar, n \div 2)}} : TRUE

\* What the method leaves once its loop is over.
ScanResult(s) ==
  IF s.ended = "return"
  THEN [found |-> TRUE, length |-> s.length, depth |-> s.depth, inString |-> s.inString,
        scannedPosition |-> s.pos, lastIndex |-> s.lastIndex]
  ELSE [found |-> FALSE, length |-> 0, depth |-> s.depth, inString |-> s.inString,
        scannedPosition |-> s.pos, lastIndex |-> s.lastIndex]

\* The loop of _findMatchingBracketIncremental from position pos on, with
\* the lastIndex the shared expression has.  The result is [found, length,
\* depth, inString, scannedPosition, lastIndex]: with found the closing
\* bracket is at position length; otherwise scannedPosition is what the
\* method stores before it returns null.  Every iteration moves pos on, so
\* there are no more iterations than characters from pos on.
ScanBrackets(str, pos, depth, inString, openChar, closeChar, lastIndex) ==
  ScanResult(ScanLoop([pos |-> pos, depth |-> depth, inString |-> inString,
                       lastIndex |-> lastIndex, ended |-> "", length |-> 0],
                      str, openChar, closeChar, Len(str) - pos))

(***************************************************************************)
(* Parser and consumer nodes                                               *)
(*                                                                         *)
(* A node is a record with the fields of every class, those of the other   *)
(* classes at their defaults.  kind is one of "string", "number",          *)
(* "literal", "key", "object", "array", "bulk", "skip", or "none" for the  *)
(* null that _createParser returns.  The chain rootParser ->               *)
(* currentChildParser -> ... is the sequence stack, the root first.        *)
(* openedAt is history: the buffer's consumedTotal when a bulk parser or   *)
(* skip consumer met its opening bracket.                                  *)
(***************************************************************************)

NewNode(kind, currentPath) ==
  [kind |-> kind, currentPath |-> currentPath, isComplete |-> FALSE, result |-> Undefined,
   startChar |-> "",
   objectData |-> <<>>, arrayData |-> <<>>, currentKey |-> <<>>, currentIndex |-> 0,
   expectingKey |-> FALSE, expectingValue |-> FALSE,
   hasConsumedOpeningBrace |-> FALSE, hasConsumedOpeningBracket |-> FALSE,
   openChar |-> "", closeChar |-> "", depth |-> 0, scannedPosition |-> 0,
   inString |-> FALSE, capturedText |-> <<>>, openedAt |-> 0]

NoNode == NewNode("none", <<>>)

JsonStringParser(currentPath) == NewNode("string", currentPath)

JsonNumberParser(currentPath) == NewNode("number", currentPath)

JsonLiteralParser(startChar, currentPath) ==
  [NewNode("literal", currentPath) EXCEPT !.startChar = startChar]

JsonObjectKeyParser == NewNode("key", <<>>)

JsonObjectParser(currentPath) ==
  [NewNode("object", currentPath) EXCEPT !.expectingKey = TRUE]

JsonArrayParser(currentPath) ==
  [NewNode("array", currentPath) EXCEPT !.expectingValue = TRUE]

BulkParserBase(currentPath, openChar, closeChar) ==
  [NewNode("bulk", currentPath) EXCEPT !.openChar = openChar, !.closeChar = closeChar]

StructureConsumerBase(currentPath, openChar, closeChar) ==
  [NewNode("skip", currentPath) EXCEPT !.openChar = openChar, !.closeChar = closeChar]

Primitives == {"string", "number", "literal"}

_createStructureParser(currentPath, parsedJsonPaths, openChar, closeChar) ==
  LET parseStrategy == DetermineParseStrategy(parsedJsonPaths, currentPath)
  IN IF parseStrategy = "skip" THEN StructureConsumerBase(currentPath, openChar, closeChar)
     ELSE IF parseStrategy = "bulk" THEN BulkParserBase(currentPath, openChar, closeChar)
     ELSE IF openChar = "[" THEN JsonArrayParser(currentPath)
     ELSE JsonObjectParser(currentPath)

_createParser(buf, currentPath, parsedJsonPaths) ==
  LET char == peekFirstChar(buf)
  IN IF char = "" THEN NoNode
     ELSE IF char = "\"" THEN JsonStringParser(currentPath)
     ELSE IF char = "-" \/ char \in Digits THEN JsonNumberParser(currentPath)
     ELSE IF char \in {"t", "f", "n"} THEN JsonLiteralParser(char, currentPath)
     ELSE IF char = "[" THEN _createStructureParser(currentPath, parsedJsonPaths, "[", "]")
     ELSE IF char = "{" THEN _createStructureParser(currentPath, parsedJsonPaths, "{", "}")
     ELSE NoNode

(***************************************************************************)
(* The engine                                                              *)
(*                                                                         *)
(* An engine state is [buf, stack, emitted, produced, ends, scans, reads,   *)
(* error, idle]:                                                           *)
(*   emitted   what actualController.enqueue was given, in order;          *)
(*   produced  what filteringController.enqueue was given (history);       *)
(*   ends      for each pair of produced, the consumedTotal of the buffer  *)
(*             when it was enqueued (history);                             *)
(*   scans     the bulk parsers and skip consumers that found their        *)
(*             closing bracket, as [kind, path, from, to] with from and to *)
(*             the consumedTotal before the opening and after the closing  *)
(*             bracket (history);                                          *)
(*   reads     the matches of the string, number, literal and key parsers, *)
(*             as [kind, path, from, to, next] with from and to the        *)
(*             consumedTotal before and after the match and next, for a    *)
(*             number or literal parser, the character then in front of    *)
(*             the buffer, "" for none (history);                          *)
(*   error     "" or the error thrown;                                     *)
(*   idle      a pass of the loop of an object or array parser has left    *)
(*             the buffer and the parser as they were (history).           *)
(***************************************************************************)

StructureErrors ==
  {"UnexpectedStart", "TrailingComma", "UnexpectedComma", "UnexpectedCharacter", "ExtraData"}

IncompleteErrors == {"IncompleteEmpty", "IncompleteNotClosed"}

Top(e) == e.stack[Len(e.stack)]

SetTop(e, node) == [e EXCEPT !.stack[Len(e.stack)] = node]

Throw(e, err) == [e EXCEPT !.error = err]

\* A controller wrapper that hands every item to the stream's controller.
EnqueueUnfiltered(e, parsedJsonPaths, path, value) ==
  [e EXCEPT !.produced = Append(e.produced, <<path, value>>),
            !.ends = Append(e.ends, e.buf.consumedTotal),
            !.emitted = Append(e.emitted, <<path, value>>)]

\* filteringController.enqueue({path, value})
FilterEnqueue(e, parsedJsonPaths, path, value) ==
  LET matches == AnyMatch(parsedJsonPaths, path)
  IN [e EXCEPT !.produced = Append(e.produced, <<path, value>>),
               !.ends = Append(e.ends, e.buf.consumedTotal),
               !.emitted = IF matches THEN Append(e.emitted, <<path, value>>)
                           ELSE e.emitted]

\* ParserBase._setResult(value) of the node on top of the stack
_setResult(e, parsedJsonPaths, value) ==
  LET node == Top(e)
      done == SetTop(e, [node EXCEPT !.result = value, !.isComplete = TRUE])
  IN FilterEnqueue(done, parsedJsonPaths, node.currentPath, value)

\* The history of a match: the parser on top of the stack of e has matched
\* the text between the consumedTotal of e and that of consumed; a number
\* or literal parser with next in front of the buffer once the match was
\* consumed.
Read(e, consumed) ==
  [consumed EXCEPT !.reads =
     Append(consumed.reads,
            [kind |-> Top(e).kind, path |-> Top(e).currentPath,
             from |-> e.buf.consumedTotal, to |-> consumed.buf.consumedTotal,
             next |-> IF Top(e).kind \in {"number", "literal"}
                      THEN peekFirstChar(consumed.buf) ELSE ""])]

\* The end of parse() of a primitive parser: JSON.parse of the matched
\* lexeme, after the match was consumed, and _setResult of its value.
Lexeme(e, parsedJsonPaths, consumed, parsed) ==
  IF ~parsed.ok THEN Throw(consumed, "SyntaxError")
  ELSE _setResult(Read(e, consumed), parsedJsonPaths, parsed.val)

\* A reader that drops from the buffer the text its pattern did not match.
PartialLexemeDropped(e, parsedJsonPaths, len) ==
  IF len = 0 THEN [e EXCEPT !.buf = consumeChars(e.buf, Len(getBuffer(e.buf)))]
  ELSE Lexeme(e, parsedJsonPaths, [e EXCEPT !.buf = consumeUntilMatch(e.buf, len)],
              JsonParse(Take(getBuffer(e.buf), len)))

\* The rest of parse() once the pattern was tried on the buffer: nothing
\* happens without a match, else the len characters matched are consumed.
PrimitiveMatched(e, parsedJsonPaths, len) ==
  IF len = 0 THEN e
  ELSE Lexeme(e, parsedJsonPaths, [e EXCEPT !.buf = consumeUntilMatch(e.buf, len)],
              JsonParse(Take(getBuffer(e.buf), len)))

\* parse() of a string, number or literal parser on top of the stack.
\* JSON.parse of a string lexeme may throw (a SyntaxError, not wrapped).
PrimitiveParse(e, parsedJsonPaths) ==
  PrimitiveMatched(e, parsedJsonPaths,
                   CASE Top(e).kind = "string" -> STRING_PATTERN(getBuffer(e.buf))
                     [] Top(e).kind = "number" -> NUMBER_PATTERN(getBuffer(e.buf))
                     [] Top(e).kind = "literal" ->
                          LITERAL_PATTERNS(Top(e).startChar, getBuffer(e.buf)))

\* The end of JsonObjectKeyParser.parse(): the first group of the match
\* decoded by JSON.parse is the result.
KeyLexeme(consumed, parsed) ==
  IF ~parsed.ok THEN Throw(consumed, "SyntaxError")
  ELSE SetTop(consumed, [Top(consumed) EXCEPT !.result = parsed.val, !.isComplete = TRUE])

\* The rest of JsonObjectKeyParser.parse() once KEY_PATTERN was tried: the
\* whole match, colon included, is consumed.
KeyMatched(e, len) ==
  IF len = 0 THEN e
  ELSE KeyLexeme(Read(e, [e EXCEPT !.buf = consumeUntilMatch(e.buf, len)]),
                 JsonParse(Take(getBuffer(e.buf), STRING_PATTERN(getBuffer(e.buf)))))

\* JsonObjectKeyParser.parse(): the key and the colon in one step, nothing
\* enqueued.
KeyParse(e) == KeyMatched(e, KEY_PATTERN(getBuffer(e.buf)))

\* The first-call part of BulkParserBase.parse and StructureConsumerBase.skip:
\* with depth 0 and the opening bracket in front, it is consumed (captured,
\* by a bulk parser) and the scan starts at position 0.
OpenBracket(e) ==
  LET node == Top(e)
  IN [e EXCEPT !.buf = consumeChars(e.buf, 1),
               !.stack[Len(e.stack)] =
                  [node EXCEPT !.capturedText =
                                   IF node.kind = "bulk"
                                   THEN node.capturedText \o Take(e.buf.buffer, 1)
                                   ELSE node.capturedText,
                               !.depth = 1,
                               !.scannedPosition = 0,
                               !.openedAt = e.buf.consumedTotal]]

\* The classes whose static OUTSIDE_STRING_PATTERN, an expression with the
\* flag g, is shared by all their instances.
StaticPatterns ==
  {"JsonObjectBulkParser", "JsonArrayBulkParser", "JsonObjectConsumer",
   "JsonArrayConsumer"}

\* The class of a bulk parser or skip consumer.
ClassOf(node) ==
  IF node.kind = "bulk"
  THEN (IF node.openChar = "{" THEN "JsonObjectBulkParser" ELSE "JsonArrayBulkParser")
  ELSE (IF node.openChar = "{" THEN "JsonObjectConsumer" ELSE "JsonArrayConsumer")

\* _findMatchingBracketIncremental() of the node on top of the stack
_findMatchingBracketIncremental(e) ==
  LET node == Top(e)
  IN ScanBrackets(getBuffer(e.buf), node.scannedPosition, node.depth, node.inString,
                  node.openChar, node.closeChar, e.lastIndex[ClassOf(node)])

\* The scan has left its lastIndex in the expression of the class.
Scanned(e, found) == [e EXCEPT !.lastIndex[ClassOf(Top(e))] = found.lastIndex]

\* What the scan leaves in the node: depth and inString as the loop left
\* them, scannedPosition stored only when the method returns null.
AfterScan(node, found) ==
  [node EXCEPT !.depth = found.depth,
               !.inString = found.inString,
               !.scannedPosition = IF found.found THEN node.scannedPosition
                                   ELSE found.scannedPosition]

\* The try and catch of _finishBulkParse: the SyntaxError of JSON.parse is
\* wrapped in a JsonStreamParserError, a value is set as the result.
BulkParsed(e, parsedJsonPaths, parsed) ==
  IF ~parsed.ok THEN Throw(e, "JsonParseError")
  ELSE _setResult(e, parsedJsonPaths, parsed.val)

\* BulkParserBase._finishBulkParse(): JSON.parse of the captured text.
_finishBulkParse(e, parsedJsonPaths) ==
  BulkParsed(e, parsedJsonPaths, JsonParse(Top(e).capturedText))

\* The last statement of BulkParserBase.parse(), not reached when
\* _finishBulkParse throws.
BulkCompleted(finished) ==
  IF finished.error # "" THEN finished
  ELSE SetTop(finished, [Top(finished) EXCEPT !.isComplete = TRUE])

\* BulkParserBase.parse() once the closing bracket was found: the text up
\* to it is consumed and added to the captured text, which is then parsed.
BulkCaptured(e, parsedJsonPaths, scanned, text, buf2) ==
  BulkCompleted(
    _finishBulkParse(
      [e EXCEPT !.buf = buf2,
                !.stack[Len(e.stack)] =
                   [scanned EXCEPT !.capturedText = Top(e).capturedText \o text],
                !.scans = Append(e.scans,
                   [kind |-> "bulk", path |-> Top(e).currentPath,
                    from |-> Top(e).openedAt, to |-> buf2.consumedTotal])],
      parsedJsonPaths))

\* BulkParserBase.parse() after the scan: without a closing bracket the
\* parser waits for more data.
BulkScanned(e, parsedJsonPaths, found) ==
  IF ~found.found THEN SetTop(e, AfterScan(Top(e), found))
  ELSE BulkCaptured(e, parsedJsonPaths, AfterScan(Top(e), found),
                    Take(e.buf.buffer, found.length + 1),
                    consumeChars(e.buf, found.length + 1))

\* BulkParserBase.parse() when _findMatchingBracketIncremental returns.
BulkFound(e, parsedJsonPaths, found) ==
  BulkScanned(Scanned(e, found), parsedJsonPaths, found)

\* BulkParserBase.parse() of an incomplete bulk parser past its opening
\* bracket.
BulkParse(e, parsedJsonPaths) ==
  BulkFound(e, parsedJsonPaths, _findMatchingBracketIncremental(e))

\* StructureConsumerBase.skip() once the closing bracket was found: the
\* text up to it is consumed and the consumer is done.
SkipConsumed(e, scanned, buf2) ==
  [e EXCEPT !.buf = buf2,
            !.stack[Len(e.stack)] = [scanned EXCEPT !.isComplete = TRUE],
            !.scans = Append(e.scans,
               [kind |-> "skip", path |-> Top(e).currentPath,
                from |-> Top(e).openedAt, to |-> buf2.consumedTotal])]

\* StructureConsumerBase.skip() after the scan: without a closing bracket
\* the consumer waits for more data.
SkipScanned(e, found) ==
  IF ~found.found THEN SetTop(e, AfterScan(Top(e), found))
  ELSE SkipConsumed(e, AfterScan(Top(e), found), consumeChars(e.buf, found.length + 1))

\* StructureConsumerBase.skip() when _findMatchingBracketIncremental
\* returns.
SkipFound(e, found) == SkipScanned(Scanned(e, found), found)

\* StructureConsumerBase.skip() of an incomplete consumer past its opening
\* bracket.
Skip(e) == SkipFound(e, _findMatchingBracketIncremental(e))

\* getResult() of a finished child: a consumer has none, so undefined.
ChildResult(child) == IF child.kind = "skip" THEN Undefined ELSE child.result

\* JsonObjectParser._handleChildResult() and the clearing of
\* currentChildParser in _processChildParser: the finished child on top of
\* the stack is taken off and its result stored in the object below it.
ObjectHandleChildResult(e) ==
  LET n == Len(e.stack)
      child == e.stack[n]
      parent == e.stack[n - 1]
      result == ChildResult(child)
      parent2 ==
        IF parent.expectingKey
        THEN [parent EXCEPT !.currentKey = result[2],
                            !.expectingKey = FALSE,
                            !.expectingValue = TRUE]
        ELSE IF parent.expectingValue
        THEN [parent EXCEPT !.objectData = ObjSet(parent.objectData, parent.currentKey, result),
                            !.currentKey = <<>>,
                            !.expectingValue = FALSE]
        ELSE parent
  IN [e EXCEPT !.stack = Append(SubSeq(e.stack, 1, n - 2), parent2)]

\* The same step of JsonArrayParser.parse(): push the result, clear the
\* child, stop expecting a value.
ArrayHandleChildResult(e) ==
  LET n == Len(e.stack)
      child == e.stack[n]
      parent == e.stack[n - 1]
      parent2 == [parent EXCEPT !.arrayData = Append(parent.arrayData, ChildResult(child)),
                                !.expectingValue = FALSE]
  IN [e EXCEPT !.stack = Append(SubSeq(e.stack, 1, n - 2), parent2)]

\* ParserBase._createChildParser(childPath) and the assignment to
\* currentChildParser; the null of an impossible start character is thrown
\* as an error by both callers.
\* The child parser becomes currentChildParser; null is an error.
SetChild(e, child) ==
  IF child.kind = "none" THEN Throw(e, "UnexpectedCharacter")
  ELSE [e EXCEPT !.stack = Append(e.stack, child)]

CreateChild(e, parsedJsonPaths, childPath) ==
  SetChild(e, _createParser(e.buf, childPath, parsedJsonPaths))

\* A closing brace handled without the check for a trailing comma.
CloseBraceUnchecked(e, parsedJsonPaths) ==
  _setResult([e EXCEPT !.buf = consumeChars(e.buf, 1)], parsedJsonPaths,
             <<"obj", Top(e).objectData>>)

\* A closing brace that completes the object and stays in the buffer.
ClosingBraceNotConsumed(e, parsedJsonPaths) ==
  IF Top(e).expectingKey /\ Len(Top(e).objectData) > 0 THEN Throw(e, "TrailingComma")
  ELSE _setResult(e, parsedJsonPaths, <<"obj", Top(e).objectData>>)

\* JsonObjectParser: _handleClosingBrace
_handleClosingBrace(e, parsedJsonPaths) ==
  LET node == Top(e)
  IN IF node.expectingKey /\ Len(node.objectData) > 0 THEN Throw(e, "TrailingComma")
     ELSE _setResult([e EXCEPT !.buf = consumeChars(e.buf, 1)], parsedJsonPaths,
                     <<"obj", node.objectData>>)

\* A comma that is looked at and left where it is.
CommaIgnored(e) == e

\* JsonObjectParser: _handleComma
_handleComma(e) ==
  LET node == Top(e)
  IN IF node.expectingKey \/ node.expectingValue THEN Throw(e, "UnexpectedComma")
     ELSE SetTop([e EXCEPT !.buf = consumeChars(e.buf, 1)],
                 [node EXCEPT !.expectingKey = TRUE])

\* JsonObjectParser: _handleValueStart
_handleValueStart(e, parsedJsonPaths) ==
  LET node == Top(e)
      childPath == node.currentPath \o <<".">> \o node.currentKey
  IN CreateChild(e, parsedJsonPaths, childPath)

\* JsonObjectParser: _handleNextCharacter
_handleNextCharacter(e, parsedJsonPaths, nextChar) ==
  LET node == Top(e)
  IN IF nextChar = "}" THEN _handleClosingBrace(e, parsedJsonPaths)
     ELSE IF nextChar = "," THEN _handleComma(e)
     ELSE IF node.expectingKey /\ nextChar = "\""
       THEN [e EXCEPT !.stack = Append(e.stack, JsonObjectKeyParser)]
     ELSE IF node.expectingValue THEN _handleValueStart(e, parsedJsonPaths)
     ELSE Throw(e, "UnexpectedCharacter")

\* An array parser that leaves currentIndex as it is.
IndexNotAdvanced(e, created) == created

\* JsonArrayParser.parse(): currentIndex++ once the child was created.
ArrayElementStarted(e, created) ==
  IF created.error # "" THEN created
  ELSE [created EXCEPT !.stack[Len(e.stack)] =
                          [Top(e) EXCEPT !.currentIndex = Top(e).currentIndex + 1]]

\* One pass of the loop of JsonArrayParser.parse() with no child at work,
\* after the whitespace is consumed and nextChar peeked.
ArrayNextCharacter(e, parsedJsonPaths, nextChar) ==
  LET node == Top(e)
      childPath == node.currentPath \o <<"[">> \o IntChars(node.currentIndex) \o <<"]">>
  IN IF nextChar = "]"
     THEN IF node.expectingValue /\ Len(node.arrayData) > 0 THEN Throw(e, "TrailingComma")
          ELSE _setResult([e EXCEPT !.buf = consumeChars(e.buf, 1)], parsedJsonPaths,
                          <<"arr", node.arrayData>>)
     ELSE IF nextChar = ","
     THEN IF node.expectingValue THEN Throw(e, "UnexpectedComma")
          ELSE SetTop([e EXCEPT !.buf = consumeChars(e.buf, 1)],
                      [node EXCEPT !.expectingValue = TRUE])
     ELSE IF node.expectingValue
     THEN ArrayElementStarted(e, CreateChild(e, parsedJsonPaths, childPath))
     ELSE Throw(e, "UnexpectedCharacter")

\* ParserBase.executeStep of the chain: the node on top of the stack works
\* until it needs more data; a finished child is handed to its parent, which
\* goes on with its loop.  The result is the state when the outermost
\* parse() returns or throws.
RECURSIVE Drive(_, _)

\* After the parse() or skip() of the node on top: a finished node is handed
\* on, an unfinished one waits for data.
Continue(e2, parsedJsonPaths) ==
  IF Top(e2).isComplete THEN Drive(e2, parsedJsonPaths) ELSE e2

\* What a pass of the loop of an object or array parser with no child at
\* work has done when it has not returned for want of data: it threw,
\* consumed, created a child or completed the parser.
Advanced(e1, after) ==
  \/ after.error # ""
  \/ after.buf.consumedTotal > e1.buf.consumedTotal
  \/ Len(after.stack) > Len(e1.stack)
  \/ Top(after).isComplete

\* while (!this.isComplete): the loop goes on after a pass.  A pass that
\* has done none of these would be followed by passes just like it without
\* end; the engine is then left as it is, marked idle.
Iterated(e1, after, parsedJsonPaths) ==
  IF Advanced(e1, after) THEN Drive(after, parsedJsonPaths)
  ELSE [after EXCEPT !.idle = TRUE]

\* One pass of the loop of JsonObjectParser.parse() with no child at work.
ObjectLoop(e1, parsedJsonPaths, nextChar) ==
  IF nextChar = "" THEN e1
  ELSE Iterated(e1, _handleNextCharacter(e1, parsedJsonPaths, nextChar), parsedJsonPaths)

\* One pass of the loop of JsonArrayParser.parse() with no child at work.
ArrayLoop(e1, parsedJsonPaths, nextChar) ==
  IF nextChar = "" THEN e1
  ELSE Iterated(e1, ArrayNextCharacter(e1, parsedJsonPaths, nextChar), parsedJsonPaths)

Drive(e, parsedJsonPaths) ==
  IF e.error # "" THEN e
  ELSE
    LET n == Len(e.stack)
        node == Top(e)
    IN IF node.isComplete
       THEN IF n = 1 THEN e
            ELSE IF e.stack[n - 1].kind = "object"
            THEN Drive(ObjectHandleChildResult(e), parsedJsonPaths)
            ELSE Drive(ArrayHandleChildResult(e), parsedJsonPaths)
       ELSE IF node.kind \in Primitives
       THEN Continue(PrimitiveParse(e, parsedJsonPaths), parsedJsonPaths)
       ELSE IF node.kind = "key"
       THEN Continue(KeyParse(e), parsedJsonPaths)
       ELSE IF node.kind \in {"bulk", "skip"}
       THEN IF node.depth = 0
            THEN IF peekFirstChar(e.buf) # node.openChar THEN e
                 ELSE Drive(OpenBracket(e), parsedJsonPaths)
            ELSE Continue(IF node.kind = "bulk" THEN BulkParse(e, parsedJsonPaths)
                          ELSE Skip(e),
                          parsedJsonPaths)
       ELSE IF node.kind = "object"
       THEN IF ~node.hasConsumedOpeningBrace /\ peekFirstChar(e.buf) = "{"
            THEN Drive(SetTop([e EXCEPT !.buf = consumeChars(e.buf, 1)],
                              [node EXCEPT !.hasConsumedOpeningBrace = TRUE]),
                       parsedJsonPaths)
            ELSE ObjectLoop([e EXCEPT !.buf = consumeWhitespace(e.buf)], parsedJsonPaths,
                            peekFirstChar(consumeWhitespace(e.buf)))
       ELSE \* node.kind = "array"
            IF ~node.hasConsumedOpeningBracket /\ peekFirstChar(e.buf) = "["
            THEN Drive(SetTop([e EXCEPT !.buf = consumeChars(e.buf, 1)],
                              [node EXCEPT !.hasConsumedOpeningBracket = TRUE]),
                       parsedJsonPaths)
            ELSE ArrayLoop([e EXCEPT !.buf = consumeWhitespace(e.buf)], parsedJsonPaths,
                           peekFirstChar(consumeWhitespace(e.buf)))

\* ParserBase.executeStep(rootParser).  The parse() of a string, number or
\* literal parser does not look at isComplete: a finished root primitive
\* tries its pattern on the buffer again.
executeStep(e, parsedJsonPaths) ==
  IF Len(e.stack) = 1 /\ Top(e).isComplete /\ Top(e).kind \in Primitives
  THEN PrimitiveParse(e, parsedJsonPaths)
  ELSE Drive(e, parsedJsonPaths)

NewEngine ==
  [buf |-> NewBuffer, stack |-> <<>>, emitted |-> <<>>, produced |-> <<>>,
   scans |-> <<>>, reads |-> <<>>, ends |-> <<>>, error |-> "", idle |-> FALSE,
   lastIndex |-> [c \in StaticPatterns |-> 0]]

\* A transform that takes an empty buffer for an invalid start of JSON.
RootRequired(e2, parsedJsonPaths, rootParser) ==
  IF rootParser.kind = "none" THEN Throw(e2, "UnexpectedStart")
  ELSE [e2 EXCEPT !.stack = <<rootParser>>]

\* transform(chunk) of the TransformStream
\* transform: the root parser was asked for.  Without one, a character in
\* front of the buffer cannot start a JSON value; an empty buffer waits.
RootCreated(e2, parsedJsonPaths, rootParser) ==
  IF rootParser.kind = "none"
  THEN IF peekFirstChar(e2.buf) # "" THEN Throw(e2, "UnexpectedStart") ELSE e2
  ELSE [e2 EXCEPT !.stack = <<rootParser>>]

\* transform after buffer.addChunk: without a root parser the leading
\* whitespace is consumed and the root parser created with the path $.
ChunkAdded(e1, parsedJsonPaths) ==
  IF e1.stack = <<>>
  THEN RootCreated([e1 EXCEPT !.buf = consumeWhitespace(e1.buf)], parsedJsonPaths,
                   _createParser(consumeWhitespace(e1.buf), <<"$">>, parsedJsonPaths))
  ELSE e1

\* transform: ParserBase.executeStep(rootParser), not reached after a
\* throw or the return without a root parser.
Step(e, parsedJsonPaths) ==
  IF e.error # "" \/ e.stack = <<>> THEN e ELSE executeStep(e, parsedJsonPaths)

transform(e, parsedJsonPaths, chunk) ==
  Step(ChunkAdded([e EXCEPT !.buf = addChunk(e.buf, chunk)], parsedJsonPaths),
       parsedJsonPaths)

\* A flush() that does not ask whether the root parser is done.
FlushUnchecked(e) ==
  IF peekFirstChar(consumeWhitespace(e.buf)) # ""
  THEN Throw([e EXCEPT !.buf = consumeWhitespace(e.buf)], "ExtraData")
  ELSE [e EXCEPT !.buf = consumeWhitespace(e.buf)]

\* flush() of the TransformStream
flush(e) ==
  LET e1 == [e EXCEPT !.buf = consumeWhitespace(e.buf)]
  IN IF e.stack = <<>> THEN Throw(e, "IncompleteEmpty")
     ELSE IF ~e.stack[1].isComplete THEN Throw(e, "IncompleteNotClosed")
     ELSE IF peekFirstChar(e1.buf) # "" THEN Throw(e1, "ExtraData")
     ELSE e1

(***************************************************************************)
(* The sessions of the model: a document, a pattern list, any chunking     *)
(***************************************************************************)

\* The documents of the model, as characters.
Docs ==
  <<
    \* 1: a quote escaped and a bracket inside a string of $.s
    <<"{", "\"", "s", "\"", ":", "[", "\"", "\\", "\"", "]", "\"", "]", ",",
      "\"", "t", "\"", ":", "1", "}">>,
    \* 2: a string that reads as JSON once its escaped quote is taken for its end
    <<"[", "[", "\"", "\\", "\"", "]", ",", "5", ",", "[", "\"", "]", "]">>,
    \* 3: characters of two and three bytes
    <<"{", "\"", "t", "\"", ":", "\"", "U+00E9", "U+20AC", "\"", ",", "\"",
      "s", "\"", ":", "{", "\"", "x", "\"", ":", "[", "t", "r", "u", "e",
      "]", "}", "}">>,
    \* 4: fraction, exponent, literal, whitespace
    <<" ", "[", "-", "1", ".", "5", "e", "2", ",", "n", "u", "l", "l", " ",
      ",", "1", "0", "]">>,
    \* 5: a root number with nothing after it
    <<"1", "2">>,
    \* 6: a root string that ends in an escaped backslash
    <<" ", "\"", "a", "\\", "\\", "\"", " ">>,
    \* 7: nested objects, a brace inside a string
    <<"{", "\"", "s", "\"", ":", "{", "\"", "x", "\"", ":", "1", ",", "\"",
      "t", "\"", ":", "[", "2", "]", "}", ",", "\"", "t", "\"", ":", "{",
      "\"", "x", "\"", ":", "\"", "}", "\"", "}", "}">>,
    \* 8: an escaped backslash right before the closing quote, an empty array
    <<"[", "[", "\"", "\\", "\\", "\"", "]", ",", "7", ",", "[", "]", "]">>,
    \* 9: two root strings
    <<"\"", "a", "\"", "\"", "b", "\"">>,
    \* 10: two root objects
    <<"{", "\"", "t", "\"", ":", "1", "}", "{", "\"", "t", "\"", ":", "2",
      "}">>,
    \* 11: trailing comma in the root array
    <<"[", "1", ",", "]">>,
    \* 12: trailing comma in the array $.s
    <<"{", "\"", "s", "\"", ":", "[", "1", ",", "]", ",", "\"", "t", "\"",
      ":", "2", "}">>,
    \* 13: trailing comma in the root object
    <<"{", "\"", "t", "\"", ":", "1", ",", "}">>,
    \* 14: empty input
    <<>>,
    \* 15: whitespace only
    <<" ", "LF">>,
    \* 16: input that ends inside $.t
    <<"{", "\"", "t", "\"", ":", "[", "1">>,
    \* 17: a key without a value
    <<"{", "\"", "t", "\"", ":", "}">>,
    \* 18: a character after a root number
    <<"7", " ", "x">>,
    \* 19: a root literal with nothing after it
    <<"t", "r", "u", "e">>,
    \* 20: a root literal and a line feed
    <<"n", "u", "l", "l", "LF">>,
    \* 21: a root number and a space
    <<"7", " ">>,
    \* 22: a key with a space before its colon, a key without a colon
    <<"{", "\"", "t", "\"", " ", ":", "1", ",", "\"", "s", "\"", " ", "2", "}">>,
    \* 23: a letter right after a number
    <<"[", "1", "x", "]">>
  >>

\* The values of options.acceptableJsonPath of the model.
PatternLists ==
  <<
    \* 1: $
    <<<<"$">>>>,
    \* 2: $.t
    <<<<"$", ".", "t">>>>,
    \* 3: $.s
    <<<<"$", ".", "s">>>>,
    \* 4: $[*]
    <<<<"$", "[", "*", "]">>>>,
    \* 5: $[1]
    <<<<"$", "[", "1", "]">>>>,
    \* 6: $, $.t
    <<<<"$">>, <<"$", ".", "t">>>>,
    \* 7: $.s[*], $.s.*
    <<<<"$", ".", "s", "[", "*", "]">>, <<"$", ".", "s", ".", "*">>>>,
    \* 8: $.s.x, $.s
    <<<<"$", ".", "s", ".", "x">>, <<"$", ".", "s">>>>,
    \* 9: $[0][0]
    <<<<"$", "[", "0", "]", "[", "0", "]">>>>
  >>

\* The longest chunk the stream delivers at a time, apart from the chunk
\* that holds all the rest of the input.
MaxChunk == 3

DocIds == 1..Len(Docs)

PatternListIds == 1..Len(PatternLists)

\* options.acceptableJsonPath.map(pattern => JsonPath.parse(pattern))
ParsedJsonPaths ==
  [p \in PatternListIds |->
     [i \in 1..Len(PatternLists[p]) |-> JsonPathParse(PatternLists[p][i])]]

\* How many levels the deep documents nest.
Levels == 1000

\* n times the characters of unit, one after the other.
Repeated(unit, n) == [i \in 1..(n * Len(unit)) |-> unit[((i - 1) % Len(unit)) + 1]]

\* Documents that nest Levels deep around the innermost value.
DeepDocs ==
  <<
    \* objects around a number: {"a":{"a": ... 1 ... }}
    Repeated(<<"{", "\"", "a", "\"", ":">>, Levels) \o <<"1">> \o Repeated(<<"}">>, Levels),
    \* arrays around nothing: [[ ... ]]
    Repeated(<<"[">>, Levels) \o Repeated(<<"]">>, Levels),
    \* objects around a string that is one escaped quote
    Repeated(<<"{", "\"", "a", "\"", ":">>, Levels) \o <<"\"", "\\", "\"", "\"">>
      \o Repeated(<<"}">>, Levels)
  >>

DeepDocIds == (Len(Docs) + 1)..(Len(Docs) + Len(DeepDocs))

\* Arrays of several elements for the sessions of JsonStreamParser: the
\* callbacks are called for one element after the other.
ParserDocs ==
  <<
    \* 1: three elements and a trailing comma
    <<"[", "1", ",", "2", ",", "3", ",", "]">>,
    \* 2: three elements
    <<"[", "1", ",", "2", ",", "3", "]">>,
    \* 3: a line feed inside a root string
    <<"\"", "LF", "\"">>,
    \* 4: a comma in front of the first element
    <<"[", ",", "1", "]">>
  >>

ParserDocIds ==
  (Len(Docs) + Len(DeepDocs) + 1)..(Len(Docs) + Len(DeepDocs) + Len(ParserDocs))

\* The bytes of a document of ASCII characters, one byte each.
AsciiBytes(s) == [i \in 1..Len(s) |-> Utf8Bytes(s[i])[1]]

\* Inputs that end inside a character of several bytes: a text, then the
\* first bytes of U+00E9 (195 169), U+20AC (226 130 172) or U+1F600
\* (240 159 152 128).
TruncatedInputs ==
  <<
    \* 1: a root array, then the first byte of two
    AsciiBytes(<<"[", "1", "]">>) \o <<195>>,
    \* 2: a root object and a space, then two bytes of three
    AsciiBytes(<<"{", "\"", "t", "\"", ":", "1", "}", " ">>) \o <<226, 130>>,
    \* 3: a root string, then three bytes of four
    AsciiBytes(<<"\"", "s", "\"">>) \o <<240, 159, 152>>,
    \* 4: the input ends inside a string inside an array
    AsciiBytes(<<"[", "\"", "s">>) \o <<226>>,
    \* 5: nothing but the first byte of two
    <<195>>,
    \* 6: a root number, then the first byte of two
    AsciiBytes(<<"7">>) \o <<195>>
  >>

TruncatedInputIds ==
  (Len(Docs) + Len(DeepDocs) + Len(ParserDocs) + 1)
    ..(Len(Docs) + Len(DeepDocs) + Len(ParserDocs) + Len(TruncatedInputs))

\* The bytes of each document
DocBytes ==
  [d \in DocIds \cup DeepDocIds \cup ParserDocIds \cup TruncatedInputIds |->
     IF d \in DocIds THEN Utf8Encode(Docs[d])
     ELSE IF d \in DeepDocIds THEN AsciiBytes(DeepDocs[d - Len(Docs)])
     ELSE IF d \in ParserDocIds THEN Utf8Encode(ParserDocs[d - Len(Docs) - Len(DeepDocs)])
     ELSE TruncatedInputs[d - Len(Docs) - Len(DeepDocs) - Len(ParserDocs)]]

VARIABLES
  doc,       \* the document the byte source delivers
  pats,      \* the pattern list the stream was constructed with
  fed,       \* how many bytes of the document were written to the stream
  engine,    \* the state the closures of the constructor share
  phase,     \* "open", "closed" (flush returned) or "errored" (a throw)
  call,      \* a single call outside a session: its arguments and outcome
  second,    \* a second run of the session: the lastIndex values it found
             \* in the shared expressions, and its engine
  api        \* a JsonStreamParser around the stream: its fields, its
             \* streams, the calls of its callbacks, its settled promises

vars == <<doc, pats, fed, engine, phase, call, second, api>>

\* No second run takes place.
NoSecond == [lastIndex |-> NewEngine.lastIndex, engine |-> NewEngine]

\* No JsonStreamParser was constructed.
NoApi == [onError |-> FALSE, initialized |-> FALSE]

\* No call is under way.
NoCall == [op |-> "", args |-> <<>>, done |-> FALSE, result |-> <<>>]

Init ==
  /\ doc \in DocIds
  /\ pats \in PatternListIds
  /\ fed = 0
  /\ engine = NewEngine
  /\ phase = "open"
  /\ call = NoCall
  /\ second = NoSecond
  /\ api = NoApi

\* A stream that stays writable after a throw in transform or flush.
PhaseKeptOpen(after, ok) == ok

\* A throw in transform or flush errors the stream.
PhaseAfter(after, ok) == IF after.error # "" THEN "errored" ELSE ok

\* The next n bytes of the document are written as one chunk.
Deliver(n) ==
  /\ engine' = transform(engine, ParsedJsonPaths[pats],
                         SubSeq(DocBytes[doc], fed + 1, fed + n))
  /\ fed' = fed + n
  /\ phase' = PhaseAfter(engine', "open")
  /\ UNCHANGED <<doc, pats, call, second, api>>

\* A chunk of up to MaxChunk bytes is written.
Transform ==
  /\ phase = "open"
  /\ \E n \in 1..MaxChunk :
       /\ fed + n <= Len(DocBytes[doc])
       /\ Deliver(n)

\* All the rest of the input is written as one chunk.
TransformRest ==
  /\ phase = "open"
  /\ fed < Len(DocBytes[doc])
  /\ Deliver(Len(DocBytes[doc]) - fed)

\* The source is at its end and the stream is closed.
Flush ==
  /\ phase = "open"
  /\ fed = Len(DocBytes[doc])
  /\ engine' = flush(engine)
  /\ phase' = PhaseAfter(engine', "closed")
  /\ UNCHANGED <<doc, pats, fed, call, second, api>>

Next == Transform \/ TransformRest \/ Flush

Spec == Init /\ [][Next]_vars

\* The sessions over the deep documents: a pattern list that matches
\* nothing in them, chunks of up to MaxChunk bytes.
DeepPatternListIds == {2, 3}

DeepInit ==
  /\ doc \in DeepDocIds
  /\ pats \in DeepPatternListIds
  /\ fed = 0
  /\ engine = NewEngine
  /\ phase = "open"
  /\ call = NoCall
  /\ second = NoSecond
  /\ api = NoApi

\* The length of the chunks a deep document is cut into at first.
DeepChunk == 100

\* A chunk of DeepChunk bytes is written.
TransformChunk ==
  /\ phase = "open"
  /\ fed + DeepChunk <= Len(DocBytes[doc])
  /\ Deliver(DeepChunk)

DeepNext == Transform \/ TransformChunk \/ Flush

DeepSpec == DeepInit /\ [][DeepNext]_vars


(***************************************************************************)
(* Two runs of one session                                                 *)
(*                                                                         *)
(* The first run finds the shared expressions as the process starts them,  *)
(* the second as some earlier run left them.  Both are given the same      *)
(* chunks.                                                                 *)
(***************************************************************************)

\* The largest lastIndex an earlier run has left in the shared expressions.
MaxLastIndex == 2

TwiceInit ==
  /\ doc \in DocIds
  /\ pats \in PatternListIds
  /\ fed = 0
  /\ engine = NewEngine
  /\ phase = "open"
  /\ call = NoCall
  /\ api = NoApi
  /\ \E left \in 0..MaxLastIndex :
       second = [lastIndex |-> [c \in StaticPatterns |-> left],
                 engine |-> [NewEngine EXCEPT
                               !.lastIndex = [c \in StaticPatterns |-> left]]]

\* What a call makes of a run, which it does not reach once the run
\* has failed.
RunOn(e, after) == IF e.error # "" THEN e ELSE after

\* The next n bytes of the document are written to both runs as one chunk.
TwiceDeliver(n) ==
  /\ engine' = transform(engine, ParsedJsonPaths[pats],
                         SubSeq(DocBytes[doc], fed + 1, fed + n))
  /\ second' = [second EXCEPT !.engine =
                  RunOn(second.engine,
                        transform(second.engine, ParsedJsonPaths[pats],
                                  SubSeq(DocBytes[doc], fed + 1, fed + n)))]
  /\ fed' = fed + n
  /\ phase' = PhaseAfter(engine', "open")
  /\ UNCHANGED <<doc, pats, call, api>>

TwiceTransform ==
  /\ phase = "open"
  /\ \E n \in 1..MaxChunk :
       /\ fed + n <= Len(DocBytes[doc])
       /\ TwiceDeliver(n)

TwiceTransformRest ==
  /\ phase = "open"
  /\ fed < Len(DocBytes[doc])
  /\ TwiceDeliver(Len(DocBytes[doc]) - fed)

TwiceFlush ==
  /\ phase = "open"
  /\ fed = Len(DocBytes[doc])
  /\ engine' = flush(engine)
  /\ second' = [second EXCEPT !.engine = RunOn(second.engine, flush(second.engine))]
  /\ phase' = PhaseAfter(engine', "closed")
  /\ UNCHANGED <<doc, pats, fed, call, api>>

TwiceNext == TwiceTransform \/ TwiceTransformRest \/ TwiceFlush

TwiceSpec == TwiceInit /\ [][TwiceNext]_vars

(***************************************************************************)
(* JsonStreamParser: enqueue(), close() and the callbacks                  *)
(***************************************************************************)

\* new JsonStreamParser(options), before _initialize()
NewJsonStreamParser(onError) ==
  [onError |-> onError,      \* options.onError was given
   initialized |-> FALSE,    \* this._initialized
   writable |-> "writable",  \* the stream this._writer writes to: "writable",
                             \* "closed" or "errored"
   inflight |-> <<>>,        \* chunks written, on their way to transform
   closing |-> FALSE,        \* the writer was closed: flush follows the chunks
   queue |-> <<>>,           \* the queue of the readable side of the transformer
   handed |-> <<>>,          \* the item reader.read() was fulfilled with, before
                             \* the loop passes it to onValueParsed
   reading |-> "idle",       \* this._readingPromise: "idle" (none), "reading"
                             \* (pending), "done" and "handled" (fulfilled, the
                             \* latter after onError) or "rejected"
   values |-> <<>>,          \* the calls of onValueParsed
   errors |-> <<>>,          \* the calls of onError
   thrown |-> <<>>,          \* the rejected promises of enqueue() and close()
   closeWriter |-> "none",   \* the promise of this._writer.close()
   close |-> "none"]         \* the promise of close(): "none", "pending",
                             \* "resolved" or "rejected"

\* _initialize(): the writer is taken and the reading loop started, once.
_initialize(a) ==
  IF a.initialized THEN a ELSE [a EXCEPT !.initialized = TRUE, !.reading = "reading"]

\* The error object a throw of the engine carries: JSON.parse of a
\* primitive throws a SyntaxError, every other throw of the engine is a
\* JsonStreamParserError.
ErrorThrown(e) ==
  [name |-> IF e.error = "SyntaxError" THEN "SyntaxError" ELSE "JsonStreamParserError",
   message |-> e.error]

\* error instanceof JsonStreamParserError ? error : new JsonStreamParserError(error.message)
Wrapped(error) ==
  IF error.name = "JsonStreamParserError" THEN error
  ELSE [name |-> "JsonStreamParserError", message |-> error.message]

\* Catch blocks that throw whether options.onError was given or not.
OnErrorNotAsked(a) == FALSE

\* if (this.onError) of the catch blocks
HasOnError(a) == a.onError

\* catch of _startReading
CatchInStartReading(a, error) ==
  IF HasOnError(a)
  THEN [a EXCEPT !.errors = Append(@, Wrapped(error)), !.reading = "handled"]
  ELSE [a EXCEPT !.reading = "rejected"]

\* catch of enqueue
CatchInEnqueue(a, error) ==
  IF HasOnError(a)
  THEN [a EXCEPT !.errors = Append(@, Wrapped(error))]
  ELSE [a EXCEPT !.thrown = Append(@, [from |-> "enqueue", error |-> Wrapped(error)])]

\* catch of close
CatchInClose(a, error) ==
  IF HasOnError(a)
  THEN [a EXCEPT !.errors = Append(@, Wrapped(error)), !.close = "resolved"]
  ELSE [a EXCEPT !.thrown = Append(@, [from |-> "close", error |-> Wrapped(error)]),
                 !.close = "rejected"]

\* await this._writer.write(chunk): a write to the errored stream is
\* rejected with the error the transformer threw; the writable stream takes
\* the chunk once the chunk before it has gone through transform.
Written(a, e, chunk) ==
  IF a.writable = "errored" THEN CatchInEnqueue(a, ErrorThrown(e))
  ELSE [a EXCEPT !.inflight = Append(@, chunk)]

\* enqueue(chunk) with the next n bytes of the document
EnqueueChunk(n) ==
  /\ api.close = "none"
  /\ api.writable = "writable" => api.inflight = <<>>
  /\ api' = Written(_initialize(api), engine, SubSeq(DocBytes[doc], fed + 1, fed + n))
  /\ fed' = fed + n
  /\ UNCHANGED <<doc, pats, engine, phase, call, second>>

\* enqueue() with a chunk of up to MaxChunk bytes
Enqueue ==
  \E n \in 1..MaxChunk :
    /\ fed + n <= Len(DocBytes[doc])
    /\ EnqueueChunk(n)

\* enqueue() with all the rest of the document
EnqueueRest ==
  /\ fed < Len(DocBytes[doc])
  /\ EnqueueChunk(Len(DocBytes[doc]) - fed)

\* What a call of transform leaves in the streams.  The first item it
\* enqueued fulfilled the pending read(), the others are queued.  When it
\* threw, the loop of _startReading runs once (it was resumed when its
\* read() was fulfilled, before the stream reacts to the throw) and takes
\* the second item; then the readable side is errored and its queue reset,
\* and the writable side of the identity stream is errored through the pipe.
Transformed(a, items, threw) ==
  [a EXCEPT !.inflight = Tail(@),
            !.handed = Take(items, 1),
            !.queue = IF threw THEN Take(Drop(items, 1), 1) ELSE Drop(items, 1),
            !.writable = IF threw /\ @ = "writable" THEN "errored" ELSE @]

\* readable.pipeThrough(this._transformer): the chunk in flight is given to
\* transform, which the stream calls when the loop waits in read() with
\* nothing queued.
PipeChunk ==
  /\ api.initialized
  /\ api.inflight # <<>>
  /\ phase = "open"
  /\ api.reading = "reading" /\ api.handed = <<>> /\ api.queue = <<>>
  /\ engine' = transform(engine, ParsedJsonPaths[pats], api.inflight[1])
  /\ phase' = PhaseAfter(engine', "open")
  /\ api' = Transformed(api, SubSeq(engine'.emitted, Len(engine.emitted) + 1,
                                    Len(engine'.emitted)),
                        engine'.error # "")
  /\ UNCHANGED <<doc, pats, fed, call, second>>

\* readable.pipeThrough(this._transformer): after the last chunk the pipe
\* closes the transformer, whose flush runs; a throw of flush errors the
\* readable side and resets its queue.
PipeClose ==
  /\ api.initialized
  /\ api.closing
  /\ api.inflight = <<>>
  /\ phase = "open"
  /\ engine' = flush(engine)
  /\ phase' = PhaseAfter(engine', "closed")
  /\ api' = IF engine'.error # "" THEN [api EXCEPT !.queue = <<>>] ELSE api
  /\ UNCHANGED <<doc, pats, fed, call, second>>

\* The loop of _startReading with an item: onValueParsed is called, and
\* the next read() is fulfilled from the queue or waits.
ReadValue ==
  /\ api.initialized
  /\ api.reading = "reading"
  /\ api.handed # <<>>
  /\ api' = [api EXCEPT !.values = Append(@, api.handed[1]),
                        !.handed = Take(api.queue, 1),
                        !.queue = Drop(api.queue, 1)]
  /\ UNCHANGED <<doc, pats, fed, engine, phase, call, second>>

\* The loop of _startReading at the end of the stream: done after flush
\* returned, the catch block after a throw.
ReadEnd ==
  /\ api.initialized
  /\ api.reading = "reading"
  /\ api.handed = <<>> /\ api.queue = <<>>
  /\ phase \in {"closed", "errored"}
  /\ api' = IF phase = "closed" THEN [api EXCEPT !.reading = "done"]
            ELSE CatchInStartReading(api, ErrorThrown(engine))
  /\ UNCHANGED <<doc, pats, fed, engine, phase, call, second>>

\* close() up to its await: this._writer.close() is rejected by the errored
\* stream, else the identity stream closes and the pipe closes the transformer.
CloseCalled(a) ==
  [a EXCEPT !.close = "pending",
            !.closeWriter = IF a.writable = "errored" THEN "rejected" ELSE "fulfilled",
            !.closing = (a.writable # "errored"),
            !.writable = IF @ = "errored" THEN @ ELSE "closed"]

CloseCall ==
  /\ api.close = "none"
  /\ api' = CloseCalled(_initialize(api))
  /\ UNCHANGED <<doc, pats, fed, engine, phase, call, second>>

\* close() after Promise.allSettled: the reason of the reading promise or
\* of the writer is thrown into the catch block.
CloseSettled ==
  /\ api.initialized
  /\ api.close = "pending"
  /\ api.reading \in {"done", "handled", "rejected"}
  /\ api' = IF api.reading = "rejected" \/ api.closeWriter = "rejected"
            THEN CatchInClose(api, ErrorThrown(engine))
            ELSE [api EXCEPT !.close = "resolved"]
  /\ UNCHANGED <<doc, pats, fed, engine, phase, call, second>>

\* The documents and pattern lists of the sessions of JsonStreamParser
ParserSessionDocIds == {5, 10, 11, 14, 16} \cup ParserDocIds

ParserPatternListIds == {1, 2, 4}

ParserInit ==
  /\ doc \in ParserSessionDocIds
  /\ pats \in ParserPatternListIds
  /\ fed = 0
  /\ engine = NewEngine
  /\ phase = "open"
  /\ call = NoCall
  /\ second = NoSecond
  /\ \E onError \in BOOLEAN : api = NewJsonStreamParser(onError)

ParserNext ==
  Enqueue \/ EnqueueRest \/ PipeChunk \/ PipeClose \/ ReadValue \/ ReadEnd
    \/ CloseCall \/ CloseSettled

ParserSpec == ParserInit /\ [][ParserNext]_vars

(***************************************************************************)
(* Construction: new JsonTransformStream(options)                          *)
(***************************************************************************)

\* !v for the values of the model
Falsy(v) ==
  v \in {Undefined, <<"lit", "null">>, <<"lit", "false">>, <<"str", <<>>>>,
         <<"num", <<0, 0>>>>}

\* Array.isArray(v)
IsArray(v) == v[1] = "arr"

\* typeof v === 'string'
IsString(v) == v[1] = "str"

\* o[key]: undefined for a key o does not have and for a value without
\* properties of its own.
Property(o, key) ==
  IF o[1] # "obj" \/ ObjIndex(o[2], key, 1) = 0 THEN Undefined
  ELSE o[2][ObjIndex(o[2], key, 1)][2]

\* The name of the option that holds the pattern list.
AcceptableJsonPath ==
  <<"a", "c", "c", "e", "p", "t", "a", "b", "l", "e", "J", "s", "o", "n",
    "P", "a", "t", "h">>

\* new JsonPath(pattern): the instance, or the Error thrown.
NewJsonPath(pattern) ==
  IF Falsy(pattern) \/ ~IsString(pattern)
  THEN [thrown |-> "NonEmptyString", value |-> <<>>]
  ELSE IF HasRecursiveWildcard(pattern[2])
  THEN [thrown |-> "RecursiveWildcard", value |-> <<>>]
  ELSE [thrown |-> "", value |-> JsonPathParse(pattern[2])]

\* options.acceptableJsonPath.map(pattern => JsonPath.parse(pattern)): the
\* elements in order, the first throw ends it.
RECURSIVE MapJsonPathParse(_, _, _)
MapJsonPathParse(list, i, acc) ==
  IF i > Len(list) THEN [thrown |-> "", value |-> acc]
  ELSE IF NewJsonPath(list[i]).thrown # ""
  THEN [thrown |-> NewJsonPath(list[i]).thrown, value |-> <<>>]
  ELSE MapJsonPathParse(list, i + 1, Append(acc, NewJsonPath(list[i]).value))

\* The constructor after the patterns were parsed: super() creates the
\* stream around a new buffer, no root parser and the parsed patterns.
StreamCreated(parsed) ==
  IF parsed.thrown # ""
  THEN [thrown |-> parsed.thrown, created |-> FALSE, parsedJsonPaths |-> <<>>,
        engine |-> <<>>]
  ELSE [thrown |-> "", created |-> TRUE, parsedJsonPaths |-> parsed.value,
        engine |-> NewEngine]

\* new JsonTransformStream(options)
NewJsonTransformStream(options) ==
  IF \/ Falsy(options)
     \/ Falsy(Property(options, AcceptableJsonPath))
     \/ ~IsArray(Property(options, AcceptableJsonPath))
     \/ Len(Property(options, AcceptableJsonPath)[2]) = 0
  THEN [thrown |-> "Required", created |-> FALSE, parsedJsonPaths |-> <<>>,
        engine |-> <<>>]
  ELSE StreamCreated(MapJsonPathParse(Property(options, AcceptableJsonPath)[2], 1, <<>>))

\* The longest pattern list a construction is given.
MaxPatterns == 2

\* The elements a pattern list is made of: patterns, the empty string,
\* patterns with **, and values that are no strings.
PatternValues ==
  { <<"str", <<"$">>>>, <<"str", <<"$", ".", "t">>>>,
    <<"str", <<"$", "[", "*", "]">>>>, <<"str", <<"$", ".", "s", ".", "*">>>>,
    <<"str", <<>>>>,
    <<"str", <<"$", ".", "*", "*">>>>, <<"str", <<"$", ".", "s", "*", "*", "x">>>>,
    <<"str", <<"*", "*">>>>, <<"str", <<"$", ".", "*", ".", "*">>>>,
    <<"lit", "null">>, Undefined, <<"lit", "true">>, <<"num", <<0, 0>>>>,
    <<"num", <<7, 0>>>>, <<"arr", <<>>>> }

PatternValueLists == UNION {[1..n -> PatternValues] : n \in 0..MaxPatterns}

\* The values of the argument of the constructor.
OptionsValues ==
  {Undefined, <<"lit", "null">>, <<"obj", <<>>>>}
    \cup {<<"obj", <<<<AcceptableJsonPath, v>>>>>> :
            v \in {Undefined, <<"lit", "null">>, <<"str", <<"$", ".", "t">>>>,
                   <<"obj", <<>>>>}}
    \cup {<<"obj", <<<<AcceptableJsonPath, <<"arr", l>>>>>>>> : l \in PatternValueLists}

ConstructCalls ==
  {[op |-> "construct", args |-> <<o>>, done |-> FALSE, result |-> <<>>] :
     o \in OptionsValues}

\* The constructor is called with the options of the call.
Construct ==
  /\ call.op = "construct"
  /\ ~call.done
  /\ call' = [call EXCEPT !.done = TRUE,
                          !.result = NewJsonTransformStream(call.args[1])]
  /\ UNCHANGED <<doc, pats, fed, engine, phase, second, api>>

(***************************************************************************)
(* Matching: JsonPath.parse(pattern).match(path)                           *)
(***************************************************************************)

\* The longest tail of a path after its stem.
MaxTail == 3

\* What stands in front of the wildcard of a pattern, and at the start of
\* a path.
Stems ==
  { <<"$">>, <<"$", ".", "s">>, <<"$", "[", "0", "]">>, <<"$", ".", "*">>,
    <<"$", ".", "s", "[", "*", "]">>, <<"$", "s">>, <<"$", "s", "s">> }

\* The patterns: each stem alone, with [*] and with .*
MatchPatterns ==
  Stems \cup {q \o <<"[", "*", "]">> : q \in Stems} \cup {q \o <<".", "*">> : q \in Stems}

TailChars == {".", "[", "]", "s", "0", "*"}

Tails == UNION {[1..n -> TailChars] : n \in 0..MaxTail}

\* The paths: a stem or nothing, then a tail.
MatchPaths == {q \o t : q \in Stems \cup {<<>>}, t \in Tails}

MatchCalls ==
  {[op |-> "match", args |-> <<pattern, path>>, done |-> FALSE, result |-> <<>>] :
     pattern \in MatchPatterns, path \in MatchPaths}

\* The pattern of the call is parsed and matched against the path.
MatchCall ==
  /\ call.op = "match"
  /\ ~call.done
  /\ call' = [call EXCEPT !.done = TRUE,
                          !.result = Match(JsonPathParse(call.args[1]), call.args[2])]
  /\ UNCHANGED <<doc, pats, fed, engine, phase, second, api>>

\* The calls of the model, one call in each behaviour.
Calls == ConstructCalls \cup MatchCalls

CallInit ==
  /\ doc = 1
  /\ pats = 1
  /\ fed = 0
  /\ engine = NewEngine
  /\ phase = "call"
  /\ call \in Calls
  /\ second = NoSecond
  /\ api = NoApi

CallNext == Construct \/ MatchCall

CallSpec == CallInit /\ [][CallNext]_vars

(***************************************************************************)
(* References: what the documents hold, decoded as a whole                 *)
(***************************************************************************)

\* JSON.parse of each whole document.
DocValue == [d \in DocIds |-> JsonParse(Docs[d])]

\* The documents that are valid JSON.
ValidDocs == {d \in DocIds : DocValue[d].ok}

\* The value positions of val, located at path, as <<path, value>> pairs in
\* the order in which the values end in the text: the elements of an array
\* by index, the members of an object as they appear, a value after the
\* values inside it.
RECURSIVE PositionsOf(_, _)
RECURSIVE ElementPositions(_, _, _)
RECURSIVE MemberPositions(_, _, _)

ElementPositions(path, elems, i) ==
  IF i > Len(elems) THEN <<>>
  ELSE PositionsOf(path \o <<"[">> \o IntChars(i - 1) \o <<"]">>, elems[i])
       \o ElementPositions(path, elems, i + 1)

MemberPositions(path, pairs, i) ==
  IF i > Len(pairs) THEN <<>>
  ELSE PositionsOf(path \o <<".">> \o pairs[i][1], pairs[i][2])
       \o MemberPositions(path, pairs, i + 1)

PositionsOf(path, val) ==
  (IF val[1] = "arr" THEN ElementPositions(path, val[2], 1)
   ELSE IF val[1] = "obj" THEN MemberPositions(path, val[2], 1)
   ELSE <<>>) \o <<<<path, val>>>>

\* The value positions of each valid document.
DocPositions ==
  [d \in DocIds |-> IF DocValue[d].ok THEN PositionsOf(<<"$">>, DocValue[d].val) ELSE <<>>]

\* flush() of a stream that has not failed.
ClosedAfter(e) == IF e.error # "" THEN e ELSE flush(e)

\* The session that is given the whole document as one chunk and then closed.
WholeInput(d, p) == ClosedAfter(transform(NewEngine, ParsedJsonPaths[p], DocBytes[d]))

WholeInputRun == [d \in DocIds |-> [p \in PatternListIds |-> WholeInput(d, p)]]

\* The session is over: flush returned or something was thrown.
Ended == phase \in {"closed", "errored"}


(***************************************************************************)
(* Properties                                                              *)
(***************************************************************************)

\* C1: for a valid document, a session that is over has emitted the same
\* sequence of (path, value) pairs and ended with the same outcome as the
\* session that was given the whole document as one chunk, however the
\* bytes were split into chunks.
ChunkIndependence ==
  (Ended /\ doc \in ValidDocs) =>
     /\ engine.emitted = WholeInputRun[doc][pats].emitted
     /\ engine.error = WholeInputRun[doc][pats].error


\* How often path is the path of a pair of the sequence pairs.
PathCount(pairs, path) == Cardinality({i \in 1..Len(pairs) : pairs[i][1] = path})

\* C2: when the session over a valid document is over, every value position
\* of the document whose path matches at least one configured pattern has
\* been emitted exactly once.
MatchingPositionsEmittedOnce ==
  (Ended /\ doc \in ValidDocs) =>
     \A i \in 1..Len(DocPositions[doc]) :
        AnyMatch(ParsedJsonPaths[pats], DocPositions[doc][i][1]) =>
           PathCount(engine.emitted, DocPositions[doc][i][1]) = 1


\* Some configured pattern matches path.
SomePatternMatches(path) ==
  \E k \in 1..Len(ParsedJsonPaths[pats]) : Match(ParsedJsonPaths[pats][k], path)

\* C3: every pair delivered to the output has a path that at least one
\* configured pattern matches, and the delivered pairs are exactly the
\* produced pairs whose path some pattern matches, in the order produced:
\* a pair whose path matches no pattern is discarded.
DeliveredPathsMatch ==
  /\ \A i \in 1..Len(engine.emitted) : SomePatternMatches(engine.emitted[i][1])
  /\ engine.emitted = SelectSeq(engine.produced, LAMBDA pv : SomePatternMatches(pv[1]))

\* A session in which the filter delivered one pair and discarded another.
DeliveredAndDiscarded ==
  /\ Len(engine.emitted) > 0
  /\ \E i \in 1..Len(engine.produced) : ~SomePatternMatches(engine.produced[i][1])


\* pair is a value position of the document d: its value is what JSON.parse
\* of the whole document holds at its path.
IsPositionOf(d, pair) == \E i \in 1..Len(DocPositions[d]) : DocPositions[d][i] = pair

\* C4: every pair emitted in a session over a valid document is a value
\* position of the document, its value the decoded value at its path, also
\* when the value was put together by an incremental parser from the
\* results of its children.
EmittedValueIsDecodedValue ==
  doc \in ValidDocs =>
     \A i \in 1..Len(engine.emitted) : IsPositionOf(doc, engine.emitted[i])


\* The paths of a sequence of pairs.
PathsOf(pairs) == [i \in 1..Len(pairs) |-> pairs[i][1]]

\* C5: the sequence of the paths emitted in a session over a valid document
\* is a subsequence of the depth-first, left-to-right enumeration of the
\* value positions of the document (members as they appear, elements by
\* index, a value where it ends).
SourceOrderEmission ==
  doc \in ValidDocs => IsSubseq(PathsOf(engine.emitted), PathsOf(DocPositions[doc]))


\* The text of the value that starts at character from + 1 of the document
\* d ends at character to: from and to are counts of UTF-16 code units, as
\* consumedTotal is.
IsSubtreeRange(d, from, to) ==
  /\ from < Len(Docs[d])
  /\ ValueAt(Docs[d], from + 1).ok
  /\ ValueAt(Docs[d], from + 1).nxt = to + 1

\* The scan records of the strategy kind.
ScansOf(kind) == SelectSeq(engine.scans, LAMBDA sc : sc.kind = kind)

\* C6: in a session over a valid document, in any chunking, every bulk
\* parser that found its closing bracket captured exactly the text of its
\* subtree, from the opening bracket to the matching closing bracket, and
\* produced at its path the value JSON.parse gives for that text.
BulkEquivalence ==
  doc \in ValidDocs =>
     \A i \in 1..Len(ScansOf("bulk")) :
        LET sc == ScansOf("bulk")[i]
        IN /\ IsSubtreeRange(doc, sc.from, sc.to)
           /\ \E k \in 1..Len(engine.produced) :
                engine.produced[k] =
                   <<sc.path, JsonParse(SubSeq(Docs[doc], sc.from + 1, sc.to)).val>>

\* C7: in a session over a valid document, in any chunking, every skip
\* consumer that found its closing bracket consumed exactly the text of
\* its subtree, from the opening bracket to the matching closing bracket.
SkipConsumesSubtree ==
  doc \in ValidDocs =>
     \A i \in 1..Len(ScansOf("skip")) :
        IsSubtreeRange(doc, ScansOf("skip")[i].from, ScansOf("skip")[i].to)


\* The document d holds a complete root value and, after it, a character
\* that is no whitespace.
HasExtraData(d) ==
  /\ PValue(Docs[d], 1).ok
  /\ SkipJsonWs(Docs[d], PValue(Docs[d], 1).nxt) <= Len(Docs[d])

ExtraDataDocs == {d \in DocIds : HasExtraData(d)}

\* C8: a session over a document with a character that is no whitespace
\* after its first complete root value ends with the 'extra data after the
\* root value' error, however the document was split into chunks.
ExtraDataFails ==
  (Ended /\ doc \in ExtraDataDocs) => (phase = "errored" /\ engine.error = "ExtraData")


\* The text s holds, from s[i] on, a comma with only whitespace between it
\* and a closing bracket.  (No string of a document of the model holds one.)
RECURSIVE HasTrailingCommaFrom(_, _)
HasTrailingCommaFrom(s, i) ==
  /\ i <= Len(s)
  /\ \/ /\ s[i] = ","
        /\ SkipJsonWs(s, i + 1) <= Len(s)
        /\ s[SkipJsonWs(s, i + 1)] \in {"]", "}"}
     \/ HasTrailingCommaFrom(s, i + 1)

\* The documents whose one defect is a trailing comma.
TrailingCommaDocs == {d \in DocIds : HasTrailingCommaFrom(Docs[d], 1)}

\* The path of the object or array that holds the trailing comma.
TrailingCommaPath(d) == IF d = 12 THEN <<"$", ".", "s">> ELSE <<"$">>

\* The strategy that handles the text of the object or array with the
\* trailing comma: its own when the root is parsed incrementally (or it is
\* the root), else the strategy of the root, whose scan runs over it.
TrailingCommaStrategy ==
  IF DetermineParseStrategy(ParsedJsonPaths[pats], <<"$">>) = "incremental"
  THEN DetermineParseStrategy(ParsedJsonPaths[pats], TrailingCommaPath(doc))
  ELSE DetermineParseStrategy(ParsedJsonPaths[pats], <<"$">>)

RootIncomplete == engine.stack = <<>> \/ ~engine.stack[1].isComplete

ErrorIsTerminal ==
  [][engine.error # "" => (engine' = engine /\ fed' = fed)]_vars

\* A session that failed after it had emitted a pair and before the end of
\* its input.
ErrorBeforeEndOfInput ==
  /\ phase = "errored"
  /\ engine.error # ""
  /\ engine.emitted # <<>>
  /\ fed < Len(DocBytes[doc])

(***************************************************************************)
(* Construction                                                            *)
(***************************************************************************)

\* The pattern list of the options when they hold one with an element.
GivenPatterns(options) ==
  IF options[1] = "obj" /\ Property(options, AcceptableJsonPath)[1] = "arr"
  THEN Property(options, AcceptableJsonPath)[2] ELSE <<>>

\* An element that is empty, is no string or holds two stars in a row.
InvalidPattern(v) ==
  \/ v[1] # "str"
  \/ v[2] = <<>>
  \/ \E i \in 1..(Len(v[2]) - 1) : SubSeq(v[2], i, i + 1) = <<"*", "*">>

\* C12: construction fails when the pattern list is absent or empty or when
\* one of its elements is empty, is not a string or contains **; the call
\* throws and no engine is created.
ConstructionFails ==
  (/\ call.op = "construct"
   /\ call.done
   /\ \/ GivenPatterns(call.args[1]) = <<>>
      \/ \E i \in 1..Len(GivenPatterns(call.args[1])) :
           InvalidPattern(GivenPatterns(call.args[1])[i]))
  => (call.result.thrown # "" /\ ~call.result.created)

\* A construction that was given a pattern and, after it, a pattern with **.
RecursiveWildcardRefused ==
  /\ call.op = "construct"
  /\ call.done
  /\ Len(GivenPatterns(call.args[1])) = 2
  /\ ~InvalidPattern(GivenPatterns(call.args[1])[1])
  /\ GivenPatterns(call.args[1])[2] = <<"str", <<"$", ".", "s", "*", "*", "x">>>>
  /\ call.result.thrown = "RecursiveWildcard"
  /\ ~call.result.created

(***************************************************************************)
(* The wildcards                                                           *)
(***************************************************************************)

\* path is base, then open, then one or more characters that are all
\* allowed, then close.
OneSegment(path, base, open, close, allowed) ==
  LET n == Len(base) + Len(open)
  IN /\ Len(path) > n + Len(close)
     /\ SubSeq(path, 1, Len(base)) = base
     /\ SubSeq(path, Len(base) + 1, n) = open
     /\ SubSeq(path, Len(path) - Len(close) + 1, Len(path)) = close
     /\ \A i \in (n + 1)..(Len(path) - Len(close)) : allowed[path[i]]

\* C13: an object-wildcard pattern P.* matches a path if and only if the
\* path is P, a dot, and one non-empty segment without "." and "[".
ObjectWildcardMatchesOneLevel ==
  (/\ call.op = "match"
   /\ call.done
   /\ EndsWith(call.args[1], <<".", "*">>))
  => (call.result <=>
        OneSegment(call.args[2], Take(call.args[1], Len(call.args[1]) - 2),
                   <<".">>, <<>>, [c \in TailChars \cup {"$"} |-> c \notin {".", "["}]))

\* $.* was matched against $.s.s, which lies two levels beneath $, and did
\* not match.
ObjectWildcardRefusedDeeperPath ==
  /\ call.op = "match"
  /\ call.done
  /\ call.args = <<<<"$", ".", "*">>, <<"$", ".", "s", ".", "s">>>>
  /\ call.result = FALSE

\* C14: an array-wildcard pattern P[*] matches a path if and only if the
\* path is P, then "[", then one or more decimal digits, then "]".
ArrayWildcardMatchesIndex ==
  (/\ call.op = "match"
   /\ call.done
   /\ EndsWith(call.args[1], <<"[", "*", "]">>))
  => (call.result <=>
        OneSegment(call.args[2], Take(call.args[1], Len(call.args[1]) - 3),
                   <<"[">>, <<"]">>, [c \in TailChars \cup {"$"} |-> c \in Digits]))

\* $.s[*] was matched against $.s[0] and matched.
ArrayWildcardMatchedIndex ==
  /\ call.op = "match"
  /\ call.done
  /\ call.args = <<<<"$", ".", "s", "[", "*", "]">>, <<"$", ".", "s", "[", "0", "]">>>>
  /\ call.result = TRUE

(***************************************************************************)
(* Deep nesting                                                            *)
(***************************************************************************)

\* C15: a structure nested Levels deep under no matching pattern is
\* processed to completion without failure, whatever the chunking.
DeepNestingCompletes ==
  doc \in DeepDocIds =>
    /\ engine.error = ""
    /\ phase = "closed" => engine.stack[1].isComplete

(***************************************************************************)
(* Determinism                                                             *)
(***************************************************************************)

\* C16: two runs of the engine on the same input, with the same chunking
\* and the same patterns, emit the same pairs in the same order and have
\* the same outcome: at every point the second run is where the first is,
\* apart from what stands in the shared expressions.
RunsAgree == [second.engine EXCEPT !.lastIndex = engine.lastIndex] = engine

\* Both runs have ended, after a scan with an expression in which the
\* second run had found a lastIndex other than 0, and after an emission.
SecondRunAfterLeftover ==
  /\ phase \in {"closed", "errored"}
  /\ engine.emitted # <<>>
  /\ second.engine.emitted # <<>>
  /\ second.engine.scans # <<>>
  /\ \A c \in StaticPatterns : second.lastIndex[c] # 0

(***************************************************************************)
(* C17: one channel for the failures of JsonStreamParser                     *)
(***************************************************************************)

\* The JsonStreamParserError that stands for the throw of the engine
ParseFailure == Wrapped(ErrorThrown(engine))

CloseAfterAllValues ==
  api.close = "resolved" =>
    /\ api.reading # "reading"
    /\ api.handed = <<>>
    /\ api.values = engine.emitted

(***************************************************************************)
(* C19: the strategy of a structural value                                 *)
(***************************************************************************)

\* The strategy of a parser or consumer of an object or array
StrategyOf(kind) == IF kind \in {"object", "array"} THEN "incremental" ELSE kind

\* The strategy the patterns p give the path: incremental when a pattern
\* has matching descendants of it, else bulk when a pattern matches it,
\* else skip.
StrategyFor(p, path) ==
  IF \E i \in 1..Len(ParsedJsonPaths[p]) : HasMatchingDescendants(ParsedJsonPaths[p][i], path)
  THEN "incremental"
  ELSE IF \E i \in 1..Len(ParsedJsonPaths[p]) : Match(ParsedJsonPaths[p][i], path)
  THEN "bulk"
  ELSE "skip"

\* C19: every parser or consumer of an object or array that the engine
\* has created, for whatever text and chunking, is of the one strategy that
\* its path and the patterns determine; so is every bulk parser and skip
\* consumer that has found its closing bracket.
StrategyByPathAndPatterns ==
  /\ \A i \in 1..Len(engine.stack) :
       engine.stack[i].kind \in {"object", "array", "bulk", "skip"} =>
         StrategyOf(engine.stack[i].kind) = StrategyFor(pats, engine.stack[i].currentPath)
  /\ \A i \in 1..Len(engine.scans) :
       engine.scans[i].kind = StrategyFor(pats, engine.scans[i].path)

\* Under an incremental root a value was skipped and a bulk parser is at work.
ThreeStrategiesChosen ==
  /\ Len(engine.stack) = 2
  /\ engine.stack[1].kind = "object"
  /\ engine.stack[2].kind = "bulk"
  /\ \E i \in 1..Len(engine.scans) : engine.scans[i].kind = "skip"

(***************************************************************************)
(* C20: nothing under a skipped value matches                              *)
(***************************************************************************)

\* The path q lies beneath the path p: p, then a member or an element.
Beneath(p, q) ==
  /\ Len(q) > Len(p)
  /\ StartsWith(q, p)
  /\ q[Len(p) + 1] \in {".", "["}

\* The paths of the skip consumers the engine has created so far
SkippedPaths ==
  {engine.stack[i].currentPath : i \in {j \in 1..Len(engine.stack) : engine.stack[j].kind = "skip"}}
    \cup {engine.scans[i].path : i \in {j \in 1..Len(engine.scans) : engine.scans[j].kind = "skip"}}

\* C20: no pattern matches the path of a skip consumer, and no pattern
\* matches the path of a value position of the document that lies beneath
\* that path.
NothingMatchesUnderSkip ==
  \A p \in SkippedPaths :
    /\ ~AnyMatch(ParsedJsonPaths[pats], p)
    /\ \A k \in 1..Len(DocPositions[doc]) :
         Beneath(p, DocPositions[doc][k][1]) =>
           ~AnyMatch(ParsedJsonPaths[pats], DocPositions[doc][k][1])

\* A skip consumer has consumed a value that has values beneath it.
SkippedValueWithChildren ==
  \E i \in 1..Len(engine.scans) :
    /\ engine.scans[i].kind = "skip"
    /\ \E k \in 1..Len(DocPositions[doc]) :
         Beneath(engine.scans[i].path, DocPositions[doc][k][1])

(***************************************************************************)
(* C21: a bulk-parsed value matches, nothing beneath it does               *)
(***************************************************************************)

\* The paths of the bulk parsers the engine has created so far
BulkPaths ==
  {engine.stack[i].currentPath : i \in {j \in 1..Len(engine.stack) : engine.stack[j].kind = "bulk"}}
    \cup {engine.scans[i].path : i \in {j \in 1..Len(engine.scans) : engine.scans[j].kind = "bulk"}}

\* C21: some pattern matches the path of every bulk parser, and no pattern
\* matches the path of a value position of the document that lies strictly
\* beneath that path.
BulkMatchesAndNothingBeneath ==
  \A p \in BulkPaths :
    /\ AnyMatch(ParsedJsonPaths[pats], p)
    /\ \A k \in 1..Len(DocPositions[doc]) :
         Beneath(p, DocPositions[doc][k][1]) =>
           ~AnyMatch(ParsedJsonPaths[pats], DocPositions[doc][k][1])

\* A bulk parser has parsed a value that has values beneath it, under a
\* pattern list of more than one pattern.
BulkParsedValueWithChildren ==
  /\ Len(ParsedJsonPaths[pats]) > 1
  /\ \E i \in 1..Len(engine.scans) :
       /\ engine.scans[i].kind = "bulk"
       /\ \E k \in 1..Len(DocPositions[doc]) :
            Beneath(engine.scans[i].path, DocPositions[doc][k][1])

(***************************************************************************)
(* C22: escaped quotes in the bracket scan                                 *)
(***************************************************************************)

\* Whether the text s is inside a string literal after its characters i to
\* to, given whether it was before s[i]: a quote outside a string opens
\* one; inside a string a backslash takes the next character with it, so a
\* quote closes the string exactly when the backslashes right before it
\* are an even number.
RECURSIVE InStringAfter(_, _, _, _)
InStringAfter(s, i, to, inStr) ==
  IF i > to THEN inStr
  ELSE IF ~inStr THEN InStringAfter(s, i + 1, to, s[i] = "\"")
  ELSE IF s[i] = "\\" THEN (IF i + 1 > to THEN TRUE ELSE InStringAfter(s, i + 2, to, TRUE))
  ELSE InStringAfter(s, i + 1, to, s[i] # "\"")

\* C22: a bulk parser or skip consumer that waits for more data has scanned
\* the text from its opening bracket to the end of the buffer, and holds in
\* inString whether that text ends inside a string literal, a quote having
\* closed a string if and only if an even number of backslashes came right
\* before it, wherever the chunks and the scanner's invocations ended.
ScannerStringStateExact ==
  \A i \in 1..Len(engine.stack) :
    LET node == engine.stack[i]
    IN (doc \in ValidDocs /\ node.kind \in {"bulk", "skip"} /\ node.depth > 0
          /\ ~node.isComplete) =>
         node.inString =
           InStringAfter(Docs[doc], node.openedAt + 1,
                         engine.buf.consumedTotal + node.scannedPosition, FALSE)

(***************************************************************************)
(* C23: the root parser driven again after it is done                      *)
(***************************************************************************)

\* C23: once the root parser is complete, a chunk written later, on which
\* the root parser is driven again, has nothing emitted and nothing
\* consumed from the buffer, whatever kind of value the root is.
CompleteRootStaysIdle ==
  [][(engine.stack # <<>> /\ engine.stack[1].isComplete /\ fed' > fed) =>
        /\ engine'.emitted = engine.emitted
        /\ engine'.produced = engine.produced
        /\ engine'.buf.consumedTotal = engine.buf.consumedTotal]_vars

(***************************************************************************)
(* C24: a primitive as the root value                                      *)
(***************************************************************************)

\* The valid documents whose root value is a string, a number or a literal,
\* with or without whitespace around it.
PrimitiveRootDocs == {d \in ValidDocs : DocValue[d].val[1] \in {"str", "num", "lit"}}

\* C24: a session over a valid document that is one primitive root value,
\* with a pattern list that holds $, ends closed, without an error, and has
\* emitted the one pair ($, value), also when no character follows the
\* primitive in the input.
PrimitiveRootEmitted ==
  (Ended /\ doc \in PrimitiveRootDocs /\ AnyMatch(ParsedJsonPaths[pats], <<"$">>)) =>
     /\ phase = "closed"
     /\ engine.emitted = <<<<<<"$">>, DocValue[doc].val>>>>

(***************************************************************************)
(* C25: a key without a value                                              *)
(***************************************************************************)

\* The documents in which a closing brace comes right after the colon of a
\* key of the root object.
KeyWithoutValueDocs == {17}

\* C25: an incremental object parser is never complete while it expects
\* the value of a key it has read, and a session whose root object is
\* parsed incrementally and has a closing brace right after a key and its
\* colon ends with a structure error.
KeyWithoutValueRejected ==
  /\ \A i \in 1..Len(engine.stack) :
       (engine.stack[i].kind = "object" /\ engine.stack[i].isComplete) =>
          ~engine.stack[i].expectingValue
  /\ (Ended /\ doc \in KeyWithoutValueDocs /\ StrategyFor(pats, <<"$">>) = "incremental") =>
        (phase = "errored" /\ engine.error \in StructureErrors)

(***************************************************************************)
(* C26: a lexeme that is not complete yet                                  *)
(***************************************************************************)

\* A string, number or literal parser is at work and not done.
ReaderWaits(e) ==
  e.error = "" /\ e.stack # <<>> /\ Top(e).kind \in Primitives /\ ~Top(e).isComplete

\* The engine after the first k of the bytes that the step from fed to
\* upto writes.
AfterFirst(k) == transform(engine, ParsedJsonPaths[pats], SubSeq(DocBytes[doc], fed + 1, fed + k))

\* What the rest of those bytes makes of the engine mid.
ThenRest(mid, k, upto) ==
  transform(mid, ParsedJsonPaths[pats], SubSeq(DocBytes[doc], fed + k + 1, upto))

\* C26: a string, number or literal parser whose lexeme is not complete
\* returns with nothing consumed, nothing emitted and its own state as it
\* was, only the new text added to the buffer; and wherever the bytes that
\* one write delivers are cut so that such a reader waits at the cut, the
\* two writes leave the engine as the one write does.
IncompleteLexemeRetried ==
  [][fed' > fed =>
       /\ (ReaderWaits(engine) /\ ReaderWaits(engine')
              /\ engine'.buf.consumedTotal = engine.buf.consumedTotal) =>
            /\ engine'.stack = engine.stack
            /\ engine'.emitted = engine.emitted
            /\ engine'.produced = engine.produced
            /\ StartsWith(engine'.buf.buffer, engine.buf.buffer)
       /\ \A k \in 1..(fed' - fed - 1) :
            \A mid \in {AfterFirst(k)} :
               ReaderWaits(mid) => engine' = ThenRest(mid, k, fed')]_vars

\* A string parser has returned in front of text that ends inside an escape
\* and waits for the bytes still to come.
ReaderWaitsInsideEscape ==
  /\ ReaderWaits(engine)
  /\ Top(engine).kind = "string"
  /\ Len(engine.buf.buffer) > 1
  /\ engine.buf.buffer[Len(engine.buf.buffer)] = "\\"
  /\ fed < Len(DocBytes[doc])

(***************************************************************************)
(* C27: the terminator after a number or literal                           *)
(***************************************************************************)

\* C27: whenever a number or literal parser has completed, the character
\* right after its lexeme in the input had arrived and is a terminator
\* (whitespace, a comma, a closing brace or bracket), and it was in front
\* of the buffer, not consumed, when the parser was done.
TerminatorFollowsLexeme ==
  \A i \in 1..Len(engine.reads) :
    LET r == engine.reads[i]
    IN r.kind \in {"number", "literal"} =>
         /\ r.next \in Terminators
         /\ r.to < Len(Docs[doc])
         /\ Docs[doc][r.to + 1] = r.next

\* A literal was read in front of a whitespace and a number in front of a
\* closing bracket.
LiteralAndNumberRead ==
  /\ \E i \in 1..Len(engine.reads) :
       engine.reads[i].kind = "literal" /\ engine.reads[i].next = " "
  /\ \E i \in 1..Len(engine.reads) :
       engine.reads[i].kind = "number" /\ engine.reads[i].next = "]"

(***************************************************************************)
(* C28: the key and its colon                                              *)
(***************************************************************************)

\* The index of the quote that closes the string literal at the start of
\* the text t, 0 when t does not start with a complete string literal.
StringEnd(t) ==
  IF t = <<>> \/ t[1] # "\"" THEN 0
  ELSE LET ends == {q \in 2..Len(t) : ~InStringAfter(t, 1, q, FALSE)}
       IN IF ends = {} THEN 0 ELSE CHOOSE q \in ends : \A x \in ends : q <= x

\* The text t is a complete string literal, whitespace or none, and a colon.
KeyThroughColon(t) ==
  /\ StringEnd(t) # 0
  /\ Len(t) > StringEnd(t)
  /\ t[Len(t)] = ":"
  /\ \A j \in (StringEnd(t) + 1)..(Len(t) - 1) : t[j] \in RegexWs

\* The text of the document d after its first from characters does not
\* start with a key and its colon: the string is not complete, the colon
\* is missing, or another character that is no whitespace comes first.
NoKeyAt(d, from) ==
  \A c \in 1..(Len(Docs[d]) - from) : ~KeyThroughColon(SubSeq(Docs[d], from + 1, from + c))

\* A key parser is at work.
KeyWaits(e) == e.error = "" /\ e.stack # <<>> /\ Top(e).kind = "key"

\* Every match of a key parser is a complete string, whitespace or none
\* and a colon, consumed in one step.
KeysReadThroughColon ==
  \A i \in 1..Len(engine.reads) :
    engine.reads[i].kind = "key" =>
      KeyThroughColon(SubSeq(Docs[doc], engine.reads[i].from + 1, engine.reads[i].to))

\* C28: the key parser completes only on a complete string followed by
\* optional whitespace and a colon, which it consumes in one step; while
\* the text in front of it is no such text (no colon, or another character
\* after the closing quote) every step leaves it incomplete, with nothing
\* consumed and its object as it was, until the input ends.
KeyReaderWaitsForColon ==
  /\ []KeysReadThroughColon
  /\ [][(KeyWaits(engine) /\ NoKeyAt(doc, engine.buf.consumedTotal)) =>
          \/ engine'.error = "IncompleteNotClosed"
          \/ /\ KeyWaits(engine')
             /\ engine'.stack = engine.stack
             /\ engine'.buf.consumedTotal = engine.buf.consumedTotal
             /\ engine'.produced = engine.produced]_vars

\* A key was read with a space before its colon, and the key parser of the
\* next key, which has no colon, waits with all the input in the buffer.
KeyWithoutColonWaits ==
  /\ \E i \in 1..Len(engine.reads) :
       /\ engine.reads[i].kind = "key"
       /\ engine.reads[i].to - engine.reads[i].from = 5
  /\ KeyWaits(engine)
  /\ NoKeyAt(doc, engine.buf.consumedTotal)
  /\ StringEnd(engine.buf.buffer) # 0
  /\ fed = Len(DocBytes[doc])

(***************************************************************************)
(* C29: the pair of an incrementally parsed object or array                *)
(***************************************************************************)

\* The place of path among the value positions of the document d, which
\* are in the order in which the values end; 0 when it is none of them.
PosIndex(d, path) ==
  IF \E k \in 1..Len(DocPositions[d]) : DocPositions[d][k][1] = path
  THEN CHOOSE k \in 1..Len(DocPositions[d]) : DocPositions[d][k][1] = path
  ELSE 0

\* The produced pairs that come from an incremental object or array parser
IncrementalPairs ==
  {j \in 1..Len(engine.produced) :
     /\ engine.produced[j][2][1] \in {"obj", "arr"}
     /\ StrategyFor(pats, engine.produced[j][1]) = "incremental"}

\* The first to characters of the document d end with the text of the
\* object or array that d holds at path, closing bracket included.
ClosesValueAt(d, path, to) ==
  /\ to >= 1
  /\ Docs[d][to] \in {"}", "]"}
  /\ \E st \in 1..to :
       /\ Docs[d][st] \in {"{", "["}
       /\ ValueAt(Docs[d], st).ok
       /\ ValueAt(Docs[d], st).nxt = to + 1
       /\ <<path, ValueAt(Docs[d], st).val>> = DocPositions[d][PosIndex(d, path)]

\* C29: in a session over a valid document, the pair of an incrementally
\* parsed object or array is produced once, at the moment its closing
\* bracket has been consumed and no later; every pair from a value inside
\* it was produced before, and every pair from a value that ends later in
\* the document, its later siblings among them, is produced after it.
IncrementalPairAtClosingBracket ==
  doc \in ValidDocs =>
    \A j \in IncrementalPairs :
      LET p == engine.produced[j][1]
      IN /\ PosIndex(doc, p) # 0
         /\ PathCount(engine.produced, p) = 1
         /\ ClosesValueAt(doc, p, engine.ends[j])
         /\ \A i \in 1..Len(engine.produced) :
              /\ Beneath(p, engine.produced[i][1]) => i < j
              /\ (PosIndex(doc, engine.produced[i][1]) > PosIndex(doc, p)) => i > j

\* An incrementally parsed object or array inside the root has produced
\* its pair after a pair of a value inside it and before a pair of a later
\* sibling.
NestedIncrementalPairProduced ==
  /\ doc \in ValidDocs
  /\ \E j \in IncrementalPairs :
       /\ engine.produced[j][1] # <<"$">>
       /\ \E i \in 1..(j - 1) : Beneath(engine.produced[j][1], engine.produced[i][1])
       /\ \E i \in (j + 1)..Len(engine.produced) :
            /\ ~Beneath(engine.produced[i][1], engine.produced[j][1])
            /\ engine.produced[i][1] # <<"$">>

(***************************************************************************)
(* C30: the paths of the elements of an array                              *)
(***************************************************************************)

\* The values of a valid JSON text s, each as [path, from, to]: its path,
\* counting the elements of an array from 0 as they stand in the text, and
\* the number of characters of s before its first and up to its last
\* character.  s[j] is the first character of the value at path.
RECURSIVE RangesOf(_, _, _)
RECURSIVE ElementRanges(_, _, _, _)
RECURSIVE MemberRanges(_, _, _)

\* The elements from the index-th on, the first of them starting at s[k].
ElementRanges(s, k, path, index) ==
  IF s[k] = "]" THEN <<>>
  ELSE LET m == SkipJsonWs(s, ValueAt(s, k).nxt)
       IN RangesOf(s, k, path \o <<"[">> \o IntChars(index) \o <<"]">>)
            \o (IF s[m] = "," THEN ElementRanges(s, SkipJsonWs(s, m + 1), path, index + 1)
                ELSE <<>>)

\* The members from the one whose key starts at s[k] on.
MemberRanges(s, k, path) ==
  IF s[k] = "}" THEN <<>>
  ELSE LET key == PStringFrom(s, k + 1, <<>>)
           start == SkipJsonWs(s, SkipJsonWs(s, key.nxt) + 1)
           m == SkipJsonWs(s, ValueAt(s, start).nxt)
       IN RangesOf(s, start, path \o <<".">> \o key.val[2])
            \o (IF s[m] = "," THEN MemberRanges(s, SkipJsonWs(s, m + 1), path) ELSE <<>>)

RangesOf(s, j, path) ==
  (IF s[j] = "[" THEN ElementRanges(s, SkipJsonWs(s, j + 1), path, 0)
   ELSE IF s[j] = "{" THEN MemberRanges(s, SkipJsonWs(s, j + 1), path)
   ELSE <<>>)
    \o <<[path |-> path, from |-> j - 1, to |-> ValueAt(s, j).nxt - 1]>>

\* The values of each valid document with their ranges.
DocRanges ==
  [d \in DocIds |->
     IF DocValue[d].ok THEN RangesOf(Docs[d], SkipJsonWs(Docs[d], 1), <<"$">>) ELSE <<>>]

\* path is the path of an element of an array: parent, [, digits, ].
ArrayOf(path) ==
  IF path[Len(path)] # "]" THEN <<>>
  ELSE LET opens == {i \in 1..Len(path) : path[i] = "["}
       IN IF opens = {} THEN <<>>
          ELSE Take(path, (CHOOSE i \in opens : \A x \in opens : x <= i) - 1)

\* The values of the document that are elements of an array which the
\* pattern list has parsed incrementally.
ElementsOfIncrementalArrays ==
  {g \in {DocRanges[doc][i] : i \in 1..Len(DocRanges[doc])} :
     /\ ArrayOf(g.path) # <<>>
     /\ StrategyFor(pats, ArrayOf(g.path)) = "incremental"}

\* Every array parser has given out the indices 0, 1, ... one by one: its
\* next index is the number of elements it has taken, and one more while
\* a child, whose path ends in the number of elements taken, is at work.
IndicesConsecutive ==
  \A i \in 1..Len(engine.stack) :
    engine.stack[i].kind = "array" =>
      IF i = Len(engine.stack)
      THEN engine.stack[i].currentIndex = Len(engine.stack[i].arrayData)
      ELSE /\ engine.stack[i].currentIndex = Len(engine.stack[i].arrayData) + 1
           /\ engine.stack[i + 1].currentPath =
                engine.stack[i].currentPath \o <<"[">>
                  \o IntChars(Len(engine.stack[i].arrayData)) \o <<"]">>

\* C30: the indices an incremental array parser gives its children are
\* consecutive from 0; in a session over a valid document the value that
\* ends where the k-th element of such an array ends in the document was
\* given the path of that array with [k], whether it was read as a
\* primitive, parsed incrementally or bulk-parsed (a pair was produced) or
\* skipped (a consumer was done); and when the session has closed every
\* element of such an array was given its path.
ElementPathsByIndex ==
  /\ IndicesConsecutive
  /\ doc \in ValidDocs =>
       \A g \in ElementsOfIncrementalArrays :
         /\ \A j \in 1..Len(engine.produced) :
              engine.ends[j] = g.to => engine.produced[j][1] = g.path
         /\ \A j \in 1..Len(engine.scans) :
              engine.scans[j].to = g.to =>
                (engine.scans[j].path = g.path /\ engine.scans[j].from = g.from)
         /\ phase = "closed" =>
              \/ \E j \in 1..Len(engine.produced) :
                   engine.ends[j] = g.to /\ engine.produced[j][1] = g.path
              \/ \E j \in 1..Len(engine.scans) :
                   engine.scans[j].kind = "skip" /\ engine.scans[j].to = g.to

\* A session has closed in which the elements of one incremental array
\* were, in this order, an array parsed incrementally whose own element
\* was produced, a primitive, and a skipped value.
IncrementalPrimitiveAndSkippedElement ==
  /\ phase = "closed"
  /\ doc \in ValidDocs
  /\ \E a, b, c \in ElementsOfIncrementalArrays :
       /\ ArrayOf(a.path) = ArrayOf(b.path) /\ ArrayOf(b.path) = ArrayOf(c.path)
       /\ a.to < b.to /\ b.to < c.to
       /\ \E g \in ElementsOfIncrementalArrays :
            /\ ArrayOf(g.path) = a.path
            /\ \E j \in 1..Len(engine.produced) :
                 engine.produced[j][1] = g.path /\ engine.ends[j] = g.to
       /\ \E j \in 1..Len(engine.reads) :
            engine.reads[j].path = b.path /\ engine.reads[j].to = b.to
       /\ \E j \in 1..Len(engine.scans) :
            engine.scans[j] = [kind |-> "skip", path |-> c.path, from |-> c.from, to |-> c.to]

(***************************************************************************)
(* C31: input that is whitespace so far                                    *)
(***************************************************************************)

\* The bytes of the four whitespace characters of JSON.
JsonWsBytes == {9, 10, 13, 32}

\* All the bytes written so far are JSON whitespace (or none was written).
OnlyWhitespaceWritten == \A i \in 1..fed : DocBytes[doc][i] \in JsonWsBytes

\* C31: while all the bytes written are JSON whitespace, or none was
\* written, no transform has thrown and there is no root parser; the only
\* error is that of flush, at the end of an input without a value.
WhitespaceWaits ==
  OnlyWhitespaceWritten =>
    /\ engine.stack = <<>>
    /\ phase # "closed"
    /\ \/ engine.error = "" /\ phase = "open"
       \/ /\ engine.error = "IncompleteEmpty"
          /\ phase = "errored"
          /\ fed = Len(DocBytes[doc])

\* The two whitespace characters of the document of whitespace were
\* written and consumed without an error, and the flush then failed for
\* want of a value.
WhitespaceOnlyFlushed ==
  /\ OnlyWhitespaceWritten
  /\ fed = 2
  /\ engine.buf.consumedTotal = 2
  /\ engine.error = "IncompleteEmpty"
  /\ phase = "errored"

(***************************************************************************)
(* C32: buffer.consumeWhitespace() on a buffer of its own                  *)
(***************************************************************************)

\* The longest text in the buffer of a call.
MaxWsLen == 2

\* The characters of the buffers: the four whitespace characters of JSON,
\* three more that \s matches, and two that are no whitespace.
WsChars == JsonWs \cup {"FF", "x0B", "U+160", "1", "{"}

WsTexts == UNION {[1..n -> WsChars] : n \in 0..MaxWsLen}

WhitespaceCalls ==
  {[op |-> "consumeWhitespace", args |-> <<text>>, done |-> FALSE, result |-> <<>>] :
     text \in WsTexts}

\* consumeWhitespace() is called on a buffer that holds the text of the call.
ConsumeWhitespaceCall ==
  /\ call.op = "consumeWhitespace"
  /\ ~call.done
  /\ call' = [call EXCEPT !.done = TRUE,
                          !.result = consumeWhitespace([NewBuffer EXCEPT !.buffer = call.args[1]])]
  /\ UNCHANGED <<doc, pats, fed, engine, phase, second, api>>

BufferInit ==
  /\ doc = 1
  /\ pats = 1
  /\ fed = 0
  /\ engine = NewEngine
  /\ phase = "call"
  /\ call \in WhitespaceCalls
  /\ second = NoSecond
  /\ api = NoApi

BufferNext == ConsumeWhitespaceCall

BufferSpec == BufferInit /\ [][BufferNext]_vars

\* The number of characters of s before the first that is not one of the
\* four whitespace characters of JSON.
JsonWsPrefix(s) ==
  IF \A i \in 1..Len(s) : s[i] \in JsonWs THEN Len(s)
  ELSE (CHOOSE i \in 1..Len(s) : s[i] \notin JsonWs /\ \A j \in 1..(i - 1) : s[j] \in JsonWs) - 1

\* C32: consumeWhitespace() leaves the text of the buffer without its
\* longest prefix of space, tab, line feed and carriage return, and has
\* counted just these characters as consumed.
WhitespaceConsumedExactly ==
  (call.op = "consumeWhitespace" /\ call.done) =>
    /\ call.result.buffer = Drop(call.args[1], JsonWsPrefix(call.args[1]))
    /\ call.result.consumedTotal = JsonWsPrefix(call.args[1])

(***************************************************************************)
(* C33: the buffer and the text written                                    *)
(***************************************************************************)

\* The text of all the bytes written so far, decoded in one piece; the
\* bytes of a character that has not arrived whole are not part of it.
DecodedWritten ==
  DecodeFrom([pending |-> <<>>, bomSeen |-> FALSE, out |-> <<>>],
             SubSeq(DocBytes[doc], 1, fed), 1).out

\* C33: the buffer holds the decoded text of the bytes written so far
\* without its first consumedTotal characters: what was consumed, followed
\* by what the buffer holds, is the text written, nothing lost, doubled or
\* out of its order.
BufferIsRestOfInput ==
  /\ engine.buf.consumedTotal <= Len(DecodedWritten)
  /\ engine.buf.buffer = Drop(DecodedWritten, engine.buf.consumedTotal)

\* Part of the text was consumed, part of it is kept in the buffer, and a
\* chunk has ended inside a character of several bytes.
BufferKeptAcrossSplitCharacter ==
  /\ engine.error = ""
  /\ engine.buf.consumedTotal > 0
  /\ engine.buf.buffer # <<>>
  /\ engine.buf.pending # <<>>
  /\ fed > engine.buf.consumedTotal + Len(engine.buf.buffer)

(***************************************************************************)
(* C34: input that ends inside a character of several bytes                *)
(***************************************************************************)

TruncatedInit ==
  /\ doc \in TruncatedInputIds
  /\ pats \in PatternListIds
  /\ fed = 0
  /\ engine = NewEngine
  /\ phase = "open"
  /\ call = NoCall
  /\ second = NoSecond
  /\ api = NoApi

\* The sessions over the inputs that end inside a character.
TruncatedSpec == TruncatedInit /\ [][Next]_vars

\* C34: a session does not close with bytes still withheld by the decoder:
\* at the end of the input they become U+FFFD, which is no whitespace and
\* ends no value, so that flush fails, for an incomplete value or for the
\* character after the value.
WithheldBytesSurface == phase = "closed" => engine.buf.pending = <<>>

(***************************************************************************)
(* C35: what the buffer holds while a subtree is skipped                   *)
(***************************************************************************)

\* C35: while a skip consumer waits for the closing bracket of its value
\* the buffer holds no more text than the chunk written last, whose size
\* is at most DeepChunk in the sessions over the deep documents: the text
\* scanned in earlier calls was released.
SkipReleasesScannedText ==
  (engine.stack # <<>> /\ Top(engine).kind = "skip" /\ ~Top(engine).isComplete)
    => Len(engine.buf.buffer) <= DeepChunk

(***************************************************************************)
(* C36: how often onError is called                                        *)
(***************************************************************************)

\* C36: with options.onError given, onError is called at most once in a
\* session, and exactly once when close() has settled after the engine
\* threw.
OnErrorCalledOnce ==
  api.onError =>
    /\ Len(api.errors) <= 1
    /\ (phase = "errored" /\ api.close = "resolved") => Len(api.errors) = 1

(***************************************************************************)
(* C37: every pass of the loops of the incremental parsers advances        *)
(***************************************************************************)

\* C37: no pass of the loop of an incremental object or array parser has
\* left the buffer and the parser as they were: a pass with no child at
\* work returns for want of data, throws, consumes at least one character,
\* creates a child or completes the parser, and a pass with a child at work
\* returns while the child is not done and takes the child off when it is.
\* Every call of transform has therefore come to its end.
EveryPassAdvances ==
  /\ ~engine.idle
  /\ \A i \in 1..(Len(engine.stack) - 1) :
       /\ engine.stack[i].kind \in {"object", "array"}
       /\ ~engine.stack[i].isComplete
       /\ engine.error = "" => ~engine.stack[i + 1].isComplete

\* An incremental array inside an incremental object has taken an element
\* and consumed the comma after it, and waits for the text of the next:
\* passes of the loops have consumed, created children, taken finished
\* children off and returned for want of data.
LoopsWaitBetweenElements ==
  /\ engine.error = ""
  /\ phase = "open"
  /\ Len(engine.stack) = 2
  /\ engine.stack[1].kind = "object"
  /\ Top(engine).kind = "array"
  /\ Top(engine).arrayData # <<>>
  /\ Top(engine).expectingValue
  /\ engine.buf.buffer = <<>>

(***************************************************************************)
(* C38: a session whose calls alternate with those of another session      *)
(*                                                                         *)
(* Sessions share nothing but the four static expressions.  The session    *)
(* engine runs alone; the session second.engine is given the same chunks,  *)
(* and between any two of its calls another session has run and has left   *)
(* some lastIndex in the expressions.                                      *)
(***************************************************************************)

InterleavedInit ==
  /\ doc \in DocIds
  /\ pats \in PatternListIds
  /\ fed = 0
  /\ engine = NewEngine
  /\ phase = "open"
  /\ call = NoCall
  /\ api = NoApi
  /\ second = NoSecond

\* The other session has left lastIndex at left; then the next n bytes of
\* the document are written to both sessions as one chunk.
InterleavedDeliver(n, left) ==
  /\ engine' = transform(engine, ParsedJsonPaths[pats],
                         SubSeq(DocBytes[doc], fed + 1, fed + n))
  /\ second' = [lastIndex |-> [c \in StaticPatterns |-> left],
                engine |->
                  RunOn(second.engine,
                        transform([second.engine EXCEPT
                                     !.lastIndex = [c \in StaticPatterns |-> left]],
                                  ParsedJsonPaths[pats],
                                  SubSeq(DocBytes[doc], fed + 1, fed + n)))]
  /\ fed' = fed + n
  /\ phase' = PhaseAfter(engine', "open")
  /\ UNCHANGED <<doc, pats, call, api>>

InterleavedTransform ==
  /\ phase = "open"
  /\ \E n \in 1..MaxChunk, left \in 0..MaxLastIndex :
       /\ fed + n <= Len(DocBytes[doc])
       /\ InterleavedDeliver(n, left)

InterleavedTransformRest ==
  /\ phase = "open"
  /\ fed < Len(DocBytes[doc])
  /\ \E left \in 0..MaxLastIndex : InterleavedDeliver(Len(DocBytes[doc]) - fed, left)

InterleavedNext == InterleavedTransform \/ InterleavedTransformRest \/ TwiceFlush

InterleavedSpec == InterleavedInit /\ [][InterleavedNext]_vars

\* C38: the session whose calls alternate with another session's has
\* emitted what the session that runs alone has emitted, has failed where
\* it has failed, and has the same parsers and the same buffer.
InterleavedSessionUndisturbed ==
  /\ second.engine.emitted = engine.emitted
  /\ second.engine.error = engine.error
  /\ second.engine.stack = engine.stack
  /\ second.engine.buf = engine.buf

\* After an emission, a bulk parser or skip consumer has scanned all of
\* the buffer in its last call, in which it found a lastIndex other than 0
\* left by the other session, and waits for its closing bracket.
ScannedAfterOtherSession ==
  /\ second.engine.error = ""
  /\ second.engine.emitted # <<>>
  /\ second.engine.stack # <<>>
  /\ Top(second.engine).kind \in {"bulk", "skip"}
  /\ Top(second.engine).scannedPosition > MaxLastIndex
  /\ Top(second.engine).scannedPosition = Len(second.engine.buf.buffer)
  /\ \A c \in StaticPatterns : second.lastIndex[c] = MaxLastIndex

(***************************************************************************)
(* C39: JsonPath.parse(pattern).hasMatchingDescendants(path)               *)
(***************************************************************************)

\* The longest tail of a path of these calls after its stem.
MaxPathTail == 2

\* The paths of the calls: a stem or nothing, then a tail.
DescendantPaths ==
  {q \o t : q \in Stems \cup {<<>>}, t \in UNION {[1..n -> TailChars] : n \in 0..MaxPathTail}}

DescendantCalls ==
  {[op |-> "hasMatchingDescendants", args |-> <<pattern, path>>, done |-> FALSE,
    result |-> <<>>] : pattern \in MatchPatterns, path \in DescendantPaths}

\* The pattern of the call is parsed and asked for the path.
DescendantsCall ==
  /\ call.op = "hasMatchingDescendants"
  /\ ~call.done
  /\ call' = [call EXCEPT !.done = TRUE,
                          !.result = HasMatchingDescendants(JsonPathParse(call.args[1]),
                                                            call.args[2])]
  /\ UNCHANGED <<doc, pats, fed, engine, phase, second, api>>

DescendantInit ==
  /\ doc = 1
  /\ pats = 1
  /\ fed = 0
  /\ engine = NewEngine
  /\ phase = "call"
  /\ call \in DescendantCalls
  /\ second = NoSecond
  /\ api = NoApi

DescendantNext == DescendantsCall

DescendantSpec == DescendantInit /\ [][DescendantNext]_vars

\* base is path, or path followed by a character . or [ and whatever.
ContinuesPath(base, path) ==
  \/ base = path
  \/ /\ Len(base) > Len(path)
     /\ \A i \in 1..Len(path) : base[i] = path[i]
     /\ base[Len(path) + 1] \in {".", "["}

\* C39: hasMatchingDescendants(path) is true exactly when the pattern does
\* not match the path and the base path of the pattern is the path or
\* continues it with . or [.
DescendantsByPrefix ==
  (call.op = "hasMatchingDescendants" /\ call.done) =>
    (call.result <=>
       /\ ~Match(JsonPathParse(call.args[1]), call.args[2])
       /\ ContinuesPath(JsonPathParse(call.args[1]).basePath, call.args[2]))

\* A call has answered true for a path that the base path of a wildcard
\* pattern continues with [.
DescendantsOfArrayFound ==
  /\ call.op = "hasMatchingDescendants"
  /\ call.done
  /\ call.result = TRUE
  /\ JsonPathParse(call.args[1]).type = "array_wildcard"
  /\ Len(JsonPathParse(call.args[1]).basePath) > Len(call.args[2])
  /\ JsonPathParse(call.args[1]).basePath[Len(call.args[2]) + 1] = "["

(***************************************************************************)
(* C40: depth and scan position of a bulk parser or skip consumer          *)
(***************************************************************************)

\* The count of the characters open less that of the characters close
\* among s[i..to] outside string literals, the text before s[i] standing
\* outside a string; acc is the count so far.
RECURSIVE OpenBrackets(_, _, _, _, _, _, _)
OpenBrackets(s, i, to, open, close, inStr, acc) ==
  IF i > to THEN acc
  ELSE IF inStr
  THEN IF s[i] = "\\" THEN OpenBrackets(s, i + 2, to, open, close, TRUE, acc)
       ELSE OpenBrackets(s, i + 1, to, open, close, s[i] # "\"", acc)
  ELSE OpenBrackets(s, i + 1, to, open, close, s[i] = "\"",
                    IF s[i] = open THEN acc + 1
                    ELSE IF s[i] = close THEN acc - 1 ELSE acc)

\* C40: in a session over a valid document a bulk parser or skip consumer
\* that has consumed its opening bracket and waits for more data has
\* scanned the buffer to its end, no more and no less, and its depth,
\* which is at least 1, is 1 more than the brackets of its kind that the
\* scanned text has opened and not closed outside string literals; a
\* scanner that is done has stopped at the bracket that closes its value,
\* where that count first comes to 0.
ScannerDepthExact ==
  doc \in ValidDocs =>
    /\ \A i \in 1..Len(engine.stack) :
         LET node == engine.stack[i]
         IN (node.kind \in {"bulk", "skip"} /\ node.depth > 0 /\ ~node.isComplete) =>
              /\ node.scannedPosition = Len(engine.buf.buffer)
              /\ node.depth >= 1
              /\ node.depth =
                   1 + OpenBrackets(Docs[doc], node.openedAt + 2,
                                    engine.buf.consumedTotal + node.scannedPosition,
                                    node.openChar, node.closeChar, FALSE, 0)
    /\ \A j \in 1..Len(engine.scans) :
         IsSubtreeRange(doc, engine.scans[j].from, engine.scans[j].to)

=============================================================================
